---- MODULE Spec2Model ----
(***************************************************************************)
(* UDP discovery engine (src/discovery.ts, discoverDevices/stopDiscovery)  *)
(* together with the part of the HTTP layer that starts discovery runs and *)
(* listens to their events (src/http_server.ts).                           *)
(*                                                                         *)
(* One step of the model is one callback of the single-threaded event      *)
(* loop, run to completion: a socket event handler, a timer callback, an   *)
(* HTTP route handler or a call of an exported function.  Events emitted   *)
(* on the discovery handle run their listeners inside the same step.       *)
(*                                                                         *)
(* The listeners handleDeviceDiscovered attaches to a session ('frame',     *)
(* 'disconnect', 'audio') are elided in src/http_server.ts (lines 85-87);  *)
(* their bodies are the ones of src/unnamed/part_001 (lines 438-466), with *)
(* the sanitised device id as the key.                                     *)
(*                                                                         *)
(* The inside of a Session (handshake timer, reassembly of fragments,      *)
(* close) is src/session.ts and addExifToJpeg is src/exif.ts; neither is   *)
(* among the sources.  link, handlePayload, the Handshake actions and      *)
(* addExifToJpeg follow the written specification (sections 4.2 and 4.3).  *)
(*                                                                         *)
(* The dgram socket is the environment.  sockState follows node:dgram:     *)
(* bind() completes asynchronously with 'listening' or 'error'; close()    *)
(* on an open socket is followed by one 'close' event and throws on a      *)
(* socket that is already closed; a socket that is not listening delivers  *)
(* no 'message'; a cleared timer never fires.                              *)
(***************************************************************************)
EXTENDS Integers, Sequences, FiniteSets, TLC

\* ------------------------------------------------------------------ bounds
MaxRuns == 2          \* discovery runs started during one behaviour
MaxPackets == 2       \* datagrams that reach the host during one behaviour
MaxStops == 2         \* stopDiscovery calls during one behaviour
MaxSendErrors == 1    \* failed sock.send callbacks during one behaviour
MaxSockErrors == 1    \* 'error' events of one socket
MaxSubs == 2          \* /camera/ and /audio/ requests accepted during one behaviour
MaxEvents == 2        \* 'frame' and 'audio' events of sessions during one behaviour
MaxSessions == 2      \* makeSession calls during one behaviour
MaxPayloads == 3      \* payloads that reach one session's transport

\* ------------------------------------------------------- program constants
RESEND_MS == 3000     \* setInterval(sendLanSearch, 3000)
TIMEOUT_MS == 10000   \* setTimeout(..., 10000)
HANDSHAKE_MS == 5000  \* makeSession(Handlers, dev, rinfo, startSessionCallback, 5000)

\* ------------------------------------------------------------------ inputs
Runs == 1..MaxRuns
NoRun == 0

discovery_ips == {"255.255.255.255", "192.168.1.255"}
blacklisted_ips == {"10.0.0.66"}
SrcAddrs == {"192.168.1.10", "192.168.1.11", "10.0.0.66"}
NoAddr == "0.0.0.0"

\* Device ids are sequences of characters, so that sanitising is computed.
\* TwinId differs from another id only in a character sanitising replaces.
TwinId == <<"B", "+", "2">>
DevIds == { <<"A", "1">>, <<"B", " ", "2">>, TwinId }
Malformed == <<>>     \* a PunchPkt payload parse_PunchPkt throws on

SanitizedChars == {" ", "\t", "\n", "+", "#", "/"}

\* dev.devId.replace(/[\s+#\/]/g, '_')
sanitize(id) ==
  [i \in DOMAIN id |-> IF id[i] \in SanitizedChars THEN "_" ELSE id[i]]

SafeIds == { sanitize(id) : id \in DevIds }

\* Inbound datagrams: the command id, the source address, the payload.
Packets ==
  { [cmd |-> "PunchPkt", address |-> a, payload |-> p] :
      a \in SrcAddrs, p \in DevIds \cup {Malformed} }
  \cup { [cmd |-> "P2pAlive", address |-> "192.168.1.10", payload |-> Malformed] }

VARIABLES
  runs,                    \* per discoverDevices call: closure state, socket, events
  nRuns,                   \* discoverDevices calls made so far
  nPackets,                \* datagrams that reached the host so far
  server,                  \* "init" | "up" | "terminating" | "crashed"
  activeDiscoveryEmitter,  \* the run the HTTP layer tracks, NoRun for null
  inHass,                  \* !!process.env.SUPERVISOR_TOKEN
  lastStatus,              \* status code of the last response written, 0 before it
  sessions,                \* safe id -> the Session stored under it, or NoSession
  nSessions,               \* makeSession calls made so far
  subs,                    \* per accepted stream request: its response object
  nSubs,                   \* stream requests accepted so far
  nEvents,                 \* 'frame' and 'audio' events sessions have emitted so far
  lastEvent,               \* the latest of them: device, kind and emitting session
  writes,                  \* per response object: the events written to it, in order
  wire,                    \* per response object: its res.write calls, in order
  disconnects,             \* per safe id: 'disconnect' events of its sessions so far
  curImage,                \* safe id -> s.curImage of its session: the chunks of its frame
  assembled,               \* the chunks of the payload the 'frame' listener built last
  link,                    \* safe id -> the inside of the Session made for it last
  responses,               \* safe id -> video subscriber list, or NoList
  audioResponses,          \* safe id -> audio subscriber list, or NoList
  cameras,                 \* config.cameras: safe id -> settings, or NoCamera
  discoveredThisRun,       \* per setupDiscoveryListener call: ids notified
  notifications            \* per run and raw id: sendCameraDiscoveredNotification calls

vars == <<runs, nRuns, nPackets, server, activeDiscoveryEmitter, inHass, lastStatus,
          sessions, nSessions, subs, nSubs, nEvents, lastEvent, writes, wire, disconnects,
          curImage, assembled, link, responses, audioResponses, cameras, discoveredThisRun,
          notifications>>

\* What the discovery listeners leave alone: the subscribers and their streams.
streams == <<subs, nSubs, nEvents, lastEvent, writes, wire, disconnects, assembled>>

registry == <<sessions, nSessions, streams, curImage, link, responses, audioResponses, cameras,
              discoveredThisRun, notifications>>

Subs == 1..MaxSubs

\* A key without an entry; the entry a new session gets.
NoList == [defined |-> FALSE, list |-> <<>>]
EmptyList == [defined |-> TRUE, list |-> <<>>]
\* A settings entry: rotate, mirror, audio and alias as a reader of the entry
\* finds them (alias "" for none), and unset, the fields among rotate, mirror
\* and audio the entry does not have (they read as 0, false, false).
NoCamera ==
  [present |-> FALSE, rotate |-> 0, mirror |-> FALSE, audio |-> TRUE, alias |-> "",
   unset |-> {}]

\* A key of sessions without an entry.  sid tells Session objects apart,
\* connected is s.connected, dst_ip the address the session was made for,
\* audio whether the 'audio' listener was attached when it was made.
NoSession ==
  [exists |-> FALSE, sid |-> 0, connected |-> FALSE, dst_ip |-> NoAddr, audio |-> FALSE]

NoEvent == [dev |-> <<>>, kind |-> "none", sid |-> 0]

\* The inside of a Session object.  made: makeSession has returned it;
\* closed: it has been torn down (close, timeout or transport error);
\* requested: startVideoStream has asked the device for video; waited: the
\* time in ms it has spent waiting for the handshake reply; arrived: payloads
\* that reached its transport; buffer: the fragments of the frame in progress.
NoLink ==
  [made |-> FALSE, closed |-> FALSE, requested |-> FALSE, waited |-> 0, arrived |-> 0,
   buffer |-> <<>>]
NewLink == [NoLink EXCEPT !.made = TRUE]

\* A stream request that has not been made yet.  sink: "none"; "open";
\* "stalled" (the sink cannot accept a write: the client does not read, or the
\* connection is gone or failing and its event is still to be delivered);
\* "errored" (the 'error' handler has run); "closed" (the 'close' handler has
\* run).  since: the events emitted before the request.
NoSub == [sink |-> "none", dev |-> <<>>, kind |-> "none", since |-> 0]

\* A discoverDevices call that has not been made yet.
UnusedRun ==
  [ handle            |-> "none",     \* "none" | "returned" | "thrown"
    sockState         |-> "none",     \* "none" | "binding" | "listening" | "closing" | "closed"
    sock              |-> FALSE,      \* the variable sock is non-null
    discoveryRunning  |-> FALSE,
    discoveryInterval |-> FALSE,      \* the interval handle is set (timer pending)
    discoveryTimeout  |-> FALSE,      \* the timeout handle is set (timer pending)
    ticks             |-> 0,          \* interval callbacks run so far
    lanSearchSent     |-> [ip \in discovery_ips |-> 0],
    sendErrLogged     |-> 0,          \* send callbacks that reported an error
    discoverEmitted   |-> [id \in DevIds |-> 0],
    closeEmitted      |-> 0,
    errorEmitted      |-> 0,
    errorObserved     |-> 0,          \* 'error' events an attached listener received
    sockErrors        |-> 0,          \* 'error' events of the socket
    stopCalls         |-> 0,
    timedOut          |-> FALSE,      \* the timeout callback has run
    received          |-> [p \in Packets |-> 0] ]   \* datagrams given to the 'message' handler

\* A settings entry the configuration file can hold for a device.
AudioOffCamera ==
  [present |-> TRUE, rotate |-> 0, mirror |-> FALSE, audio |-> FALSE, alias |-> "",
   unset |-> {}]

Init ==
  /\ runs = [r \in Runs |-> UnusedRun]
  /\ nRuns = 0
  /\ nPackets = 0
  /\ server = "init"
  /\ activeDiscoveryEmitter = NoRun
  /\ inHass \in BOOLEAN
  /\ lastStatus = 0
  /\ sessions = [s \in SafeIds |-> NoSession]
  /\ nSessions = 0
  /\ subs = [k \in Subs |-> NoSub]
  /\ nSubs = 0
  /\ nEvents = 0
  /\ lastEvent = NoEvent
  /\ writes = [k \in Subs |-> <<>>]
  /\ wire = [k \in Subs |-> <<>>]
  /\ disconnects = [s \in SafeIds |-> 0]
  /\ curImage = [s \in SafeIds |-> <<>>]
  /\ link = [s \in SafeIds |-> NoLink]
  /\ assembled = <<>>
  /\ responses = [s \in SafeIds |-> NoList]
  /\ audioResponses = [s \in SafeIds |-> NoList]
  /\ cameras = [s \in SafeIds |-> NoCamera]
  /\ discoveredThisRun = [r \in Runs |-> {}]
  /\ notifications = [r \in Runs |-> [id \in DevIds |-> 0]]

\* The same start outside Home Assistant, with a configuration file that may
\* hold settings for a device.
InitConfigured ==
  /\ runs = [r \in Runs |-> UnusedRun]
  /\ nRuns = 0
  /\ nPackets = 0
  /\ server = "init"
  /\ activeDiscoveryEmitter = NoRun
  /\ inHass = FALSE
  /\ lastStatus = 0
  /\ sessions = [s \in SafeIds |-> NoSession]
  /\ nSessions = 0
  /\ subs = [k \in Subs |-> NoSub]
  /\ nSubs = 0
  /\ nEvents = 0
  /\ lastEvent = NoEvent
  /\ writes = [k \in Subs |-> <<>>]
  /\ wire = [k \in Subs |-> <<>>]
  /\ disconnects = [s \in SafeIds |-> 0]
  /\ curImage = [s \in SafeIds |-> <<>>]
  /\ link = [s \in SafeIds |-> NoLink]
  /\ assembled = <<>>
  /\ responses = [s \in SafeIds |-> NoList]
  /\ audioResponses = [s \in SafeIds |-> NoList]
  /\ \E off \in SafeIds :
       cameras \in { [s \in SafeIds |-> NoCamera],
                     [s \in SafeIds |-> IF s = off THEN AudioOffCamera ELSE NoCamera] }
  /\ discoveredThisRun = [r \in Runs |-> {}]
  /\ notifications = [r \in Runs |-> [id \in DevIds |-> 0]]

\* ----------------------------------------------------- discovery engine

\* Timers run in the order they fall due.  The interval is re-armed RESEND_MS
\* after each of its callbacks, so callback k + 1 is due (k + 1) * RESEND_MS
\* after the start at the earliest, and later when the loop was busy: it can
\* precede the timeout only if that is before TIMEOUT_MS, and the first one
\* always does.
\* Faulty variant: an interval callback may run although the timeout fell
\* due before it.
TickFits_IgnoresTimeout(d) == d.ticks * RESEND_MS < TIMEOUT_MS

TickFits(d) == (d.ticks + 1) * RESEND_MS < TIMEOUT_MS
TimeoutDue(d) == d.ticks >= 1 \/ RESEND_MS >= TIMEOUT_MS

\* The run has been told to end: stop(), the timeout or a socket error.
Ended(d) == d.stopCalls > 0 \/ d.timedOut \/ d.sockErrors > 0

\* discoverDevices: the closure state when the function returns its emitter.
startedRun ==
  [UnusedRun EXCEPT !.handle = "returned", !.sockState = "binding", !.sock = TRUE,
                    !.discoveryRunning = TRUE]

\* discoverDevices when createSocket/bind throws: the catch block emits 'error'
\* on an emitter nobody can have a listener on yet (EventEmitter then throws the
\* error out of discoverDevices), and neither the 'stop' listener nor the socket
\* 'close' handler is ever attached.
failedRun ==
  [UnusedRun EXCEPT !.handle = "thrown", !.discoveryRunning = TRUE, !.errorEmitted = 1]

\* Faulty variants of cleanup, used to show which properties rest on it:
\* without the discoveryRunning guard; with the guard inverted; leaving the
\* timeout pending; emitting 'close' without closing the socket.
cleanup_NoGuard(d) ==
  LET d1 == [d EXCEPT !.discoveryRunning = FALSE, !.discoveryInterval = FALSE,
                      !.discoveryTimeout = FALSE]
  IN IF d1.sock
     THEN IF d1.sockState \in {"binding", "listening"}
          THEN [d1 EXCEPT !.sockState = "closing"]
          ELSE [d1 EXCEPT !.sock = FALSE, !.closeEmitted = @ + 1]
     ELSE [d1 EXCEPT !.closeEmitted = @ + 1]

cleanup_InvertedGuard(d) ==
  IF d.discoveryRunning THEN d ELSE cleanup_NoGuard(d)

cleanup_KeepsTimeout(d) ==
  IF ~d.discoveryRunning THEN d
  ELSE [cleanup_NoGuard(d) EXCEPT !.discoveryTimeout = d.discoveryTimeout]

cleanup_EmitsWithoutClosing(d) ==
  IF ~d.discoveryRunning THEN d
  ELSE [d EXCEPT !.discoveryRunning = FALSE, !.discoveryInterval = FALSE,
                 !.discoveryTimeout = FALSE, !.closeEmitted = @ + 1]

\* cleanup: guarded by discoveryRunning; clears both timers; closes the socket.
\* sock.close() on an open socket succeeds and the socket's 'close' event
\* follows; on a socket that is already closed it throws, and the catch block
\* nulls sock and emits 'close' itself; with sock null 'close' is emitted at once.
cleanup(d) ==
  IF ~d.discoveryRunning THEN d
  ELSE LET d1 == [d EXCEPT !.discoveryRunning = FALSE, !.discoveryInterval = FALSE,
                           !.discoveryTimeout = FALSE]
       IN IF d1.sock
          THEN IF d1.sockState \in {"binding", "listening"}
               THEN [d1 EXCEPT !.sockState = "closing"]
               ELSE [d1 EXCEPT !.sock = FALSE, !.closeEmitted = @ + 1]
          ELSE [d1 EXCEPT !.closeEmitted = @ + 1]

\* Faulty variant: the round stops after its first target.
sendLanSearch_FirstTargetOnly(d, failed) ==
  IF ~d.discoveryRunning \/ ~d.sock THEN d
  ELSE LET first == CHOOSE ip \in discovery_ips : TRUE
       IN [d EXCEPT !.lanSearchSent[first] = @ + 1,
                    !.sendErrLogged = @ + Cardinality(failed)]

\* sendLanSearch: one sock.send per target unless the run has stopped; failed
\* is the set of targets whose send callback reports an error (logged only).
sendLanSearch(d, failed) ==
  IF ~d.discoveryRunning \/ ~d.sock THEN d
  ELSE [d EXCEPT !.lanSearchSent = [ip \in discovery_ips |-> @[ip] + 1],
                 !.sendErrLogged = @ + Cardinality(failed)]

\* sock.on("listening"): start the interval, send at once, start the timeout.
sockOnListening(d, failed) ==
  LET d1 == [d EXCEPT !.sockState = "listening", !.discoveryInterval = TRUE]
      d2 == sendLanSearch(d1, failed)
  IN [d2 EXCEPT !.discoveryTimeout = TRUE]

\* Faulty variant: the socket error is handled without telling the handle.
sockOnError_Silent(d) == cleanup(d)

\* sock.on("error"): emit 'error' on the handle (its listeners run), then cleanup.
sockOnError(d) ==
  cleanup([d EXCEPT !.errorEmitted = @ + 1, !.errorObserved = @ + 1])

\* sock.on("close"): null sock, clear both timers, clear the flag, emit 'close'.
sockOnClose(d) ==
  [d EXCEPT !.sockState = "closed", !.sock = FALSE, !.discoveryInterval = FALSE,
            !.discoveryTimeout = FALSE, !.discoveryRunning = FALSE,
            !.closeEmitted = @ + 1]

\* Whether handleIncomingPunch gets as far as ee.emit("discover", rinfo, dev).
Accepted(pkt) ==
  /\ pkt.cmd = "PunchPkt"
  /\ pkt.address \notin blacklisted_ips
  /\ pkt.payload # Malformed

\* Faulty variants of handleIncomingPunch: suppressing repeated ids; without the
\* blacklist test; treating a parse failure as a fatal socket error.
handleIncomingPunch_Dedup(d, pkt) ==
  IF Accepted(pkt) /\ d.discoverEmitted[pkt.payload] = 0
  THEN [d EXCEPT !.discoverEmitted[pkt.payload] = @ + 1] ELSE d

handleIncomingPunch_NoBlacklist(d, pkt) ==
  IF pkt.cmd = "PunchPkt" /\ pkt.payload # Malformed
  THEN [d EXCEPT !.discoverEmitted[pkt.payload] = @ + 1] ELSE d

handleIncomingPunch_ParseErrorFatal(d, pkt) ==
  IF pkt.cmd # "PunchPkt" \/ pkt.address \in blacklisted_ips THEN d
  ELSE IF pkt.payload = Malformed
       THEN cleanup([d EXCEPT !.errorEmitted = @ + 1, !.errorObserved = @ + 1])
       ELSE [d EXCEPT !.discoverEmitted[pkt.payload] = @ + 1]

\* handleIncomingPunch: drop other command ids, drop blacklisted sources, parse
\* inside try/catch, emit 'discover' with the parsed device.
handleIncomingPunch(d, pkt) ==
  IF pkt.cmd # "PunchPkt" THEN d
  ELSE IF pkt.address \in blacklisted_ips THEN d
  ELSE IF pkt.payload = Malformed THEN d
  ELSE [d EXCEPT !.discoverEmitted[pkt.payload] = @ + 1]

\* ------------------------------------------------------------ HTTP layer

Alive == {"up", "terminating"}

\* { rotate: 0, mirror: false, audio: true }
defaults ==
  [present |-> TRUE, rotate |-> 0, mirror |-> FALSE, audio |-> TRUE, alias |-> "",
   unset |-> {}]

\* Faulty variant: the defaults are spread over the entry.
mergeDefaults_DefaultsWin(entry) == [defaults EXCEPT !.alias = entry.alias]

\* { rotate: 0, mirror: false, audio: true, ...config.cameras[safeDevId] }:
\* every field the entry has keeps its value, the others get the default.
mergeDefaults(entry) ==
  [present |-> TRUE,
   rotate |-> IF "rotate" \in entry.unset THEN defaults.rotate ELSE entry.rotate,
   mirror |-> IF "mirror" \in entry.unset THEN defaults.mirror ELSE entry.mirror,
   audio |-> IF "audio" \in entry.unset THEN defaults.audio ELSE entry.audio,
   alias |-> entry.alias,
   unset |-> {}]

\* Faulty variant: the mirror setting is switched on, not inverted.
mirrored_SwitchesOn(entry) == [entry EXCEPT !.mirror = TRUE, !.unset = @ \ {"mirror"}]

\* config.cameras[devId].mirror = !config.cameras[devId].mirror
mirrored(entry) == [entry EXCEPT !.mirror = ~@, !.unset = @ \ {"mirror"}]

\* let p = config.cameras[devId].rotate || 0; config.cameras[devId].rotate = (p + 1) % 4
rotated(entry) == [entry EXCEPT !.rotate = (@ + 1) % 4, !.unset = @ \ {"rotate"}]

\* Faulty variant: without the test for an existing session.
handleDeviceDiscovered_NoSessionCheck(address, devId) ==
  LET safeDevId == sanitize(devId)
      camera == IF ~cameras[safeDevId].present THEN defaults
                ELSE mergeDefaults(cameras[safeDevId])
  IN /\ responses' = [responses EXCEPT ![safeDevId] = EmptyList]
     /\ curImage' = [curImage EXCEPT ![safeDevId] = <<>>]
     /\ link' = [link EXCEPT ![safeDevId] = NewLink]
     /\ audioResponses' = [audioResponses EXCEPT ![safeDevId] = EmptyList]
     /\ nSessions' = nSessions + 1
     /\ sessions' = [sessions EXCEPT ![safeDevId] =
                       [exists |-> TRUE, sid |-> nSessions + 1, connected |-> FALSE,
                        dst_ip |-> address, audio |-> camera.audio]]
     /\ cameras' = [cameras EXCEPT ![safeDevId] = camera]

\* handleDeviceDiscovered: one session per safe id; a new session gets empty
\* subscriber lists and default settings merged under the configured ones.
handleDeviceDiscovered(address, devId) ==
  LET safeDevId == sanitize(devId)
      camera == IF ~cameras[safeDevId].present THEN defaults
                ELSE mergeDefaults(cameras[safeDevId])
  IN IF sessions[safeDevId].exists
     THEN UNCHANGED <<sessions, nSessions, responses, audioResponses, cameras, curImage, link>>
     ELSE /\ responses' = [responses EXCEPT ![safeDevId] = EmptyList]
          /\ curImage' = [curImage EXCEPT ![safeDevId] = <<>>]
          /\ link' = [link EXCEPT ![safeDevId] = NewLink]
          /\ audioResponses' = [audioResponses EXCEPT ![safeDevId] = EmptyList]
          /\ nSessions' = nSessions + 1
          /\ sessions' = [sessions EXCEPT ![safeDevId] =
                            [exists |-> TRUE, sid |-> nSessions + 1, connected |-> FALSE,
                             dst_ip |-> address, audio |-> camera.audio]]
          /\ cameras' = [cameras EXCEPT ![safeDevId] = camera]

\* Faulty variant: every 'discover' event is notified.
onDiscover_NotifiesEveryEvent(r, address, devId) ==
  LET safeDevId == sanitize(devId)
  IN /\ IF inHass
        THEN /\ notifications' = [notifications EXCEPT ![r][devId] = @ + 1]
             /\ discoveredThisRun' = [discoveredThisRun EXCEPT ![r] = @ \cup {safeDevId}]
        ELSE UNCHANGED <<notifications, discoveredThisRun>>
     /\ handleDeviceDiscovered(address, devId)
     /\ UNCHANGED streams

\* setupDiscoveryListener, the 'discover' listener of run r: notify once per
\* run and safe id when inside Home Assistant, then handleDeviceDiscovered.
onDiscover(r, address, devId) ==
  LET safeDevId == sanitize(devId)
  IN /\ IF safeDevId \notin discoveredThisRun[r] /\ inHass
        THEN /\ notifications' = [notifications EXCEPT ![r][devId] = @ + 1]
             /\ discoveredThisRun' = [discoveredThisRun EXCEPT ![r] = @ \cup {safeDevId}]
        ELSE UNCHANGED <<notifications, discoveredThisRun>>
     /\ handleDeviceDiscovered(address, devId)
     /\ UNCHANGED streams

\* Faulty variant: the listeners clear the reference whichever run is tracked.
onCloseOrError_NoGuard(r, tracked) == NoRun

\* setupDiscoveryListener, the 'close' and 'error' listeners of run r: clear the
\* tracked reference when this run is the tracked one.
onCloseOrError(r, tracked) == IF tracked = r THEN NoRun ELSE tracked

\* Faulty variant: only the 'error' listener clears the tracked reference.
TrackedAfter_ErrorOnly(r, d, d2, tracked) ==
  IF d2.errorObserved > d.errorObserved
  THEN onCloseOrError(r, tracked) ELSE tracked

\* The listeners' effect on the tracked reference when run r moves from d to d2.
TrackedAfter(r, d, d2, tracked) ==
  IF d2.closeEmitted > d.closeEmitted \/ d2.errorObserved > d.errorObserved
  THEN onCloseOrError(r, tracked) ELSE tracked

\* The list without response object k: list.filter((r) => r !== res).
Without(list, k) == SelectSeq(list, LAMBDA x : x # k)

\* The response objects in a list.
Members(list) == { list[i] : i \in DOMAIN list }

\* Faulty variant: a write on a sink that cannot accept it ends the loop, as
\* an exception thrown out of the callback would.
RECURSIVE fanOut_StopsAtFailure(_, _, _)
fanOut_StopsAtFailure(w, list, e) ==
  IF list = <<>> THEN w
  ELSE IF subs[Head(list)].sink = "stalled" THEN w
  ELSE fanOut_StopsAtFailure([w EXCEPT ![Head(list)] = Append(@, e)], Tail(list), e)

\* Faulty variant: the new event is put in front of what the response object
\* was written before.
RECURSIVE fanOut_NewestFirst(_, _, _)
fanOut_NewestFirst(w, list, e) ==
  IF list = <<>> THEN w
  ELSE fanOut_NewestFirst([w EXCEPT ![Head(list)] = <<e>> \o @], Tail(list), e)

\* list.forEach((res) => res.write(...)): one more write of event e on every
\* response object, once per position it has in the list.
RECURSIVE fanOut(_, _, _)
fanOut(w, list, e) ==
  IF list = <<>> THEN w
  ELSE fanOut([w EXCEPT ![Head(list)] = Append(@, e)], Tail(list), e)

\* Faulty variant: the handler removes the response object from the array in
\* place (splice), so the array being iterated shrinks under the loop.
iteratedArray_SplicedInPlace(arr, j) == Without(arr, j)

\* The array a running forEach iterates, after the close/error handler of
\* response object j has run: the handler assigns a new, filtered array to
\* responses[devId]; the array the loop holds is not touched.
iteratedArray(arr, j) == arr

\* forEach from index i on, when the handler of response object j runs during
\* the write on j: every index below the array's length is visited once.
RECURSIVE forEachWrite(_, _, _, _, _)
forEachWrite(w, arr, i, e, j) ==
  IF i > Len(arr) THEN w
  ELSE forEachWrite([w EXCEPT ![arr[i]] = Append(@, e)],
                    IF arr[i] = j THEN iteratedArray(arr, j) ELSE arr,
                    i + 1, e, j)

\* A chunk of a frame as the session stores it: bytes of the JPEG, no EXIF
\* segment added (exif = 0).
Chunk(b) == [exif |-> 0, bytes |-> b]

\* Frames a session can hold complete: a header chunk, then data chunks.
SampleImage == <<Chunk("soi"), Chunk("d1")>>
Images == { <<Chunk("soi")>>, SampleImage, <<Chunk("soi"), Chunk("d2"), Chunk("d1")>> }

\* EXIF orientation codes by rotate, without and with mirroring.
oMap == <<1, 8, 3, 6>>
oMapMirror == <<2, 7, 4, 5>>

\* addExifToJpeg(header, orientations[code]): a new chunk, the header with the
\* precomputed segment of that code in it.
addExifToJpeg(header, code) == [exif |-> code, bytes |-> header.bytes]

\* Faulty variant: the mirrored table is used when mirror is off.
orientation_TablesSwapped(camera) ==
  IF camera.mirror THEN oMap[camera.rotate + 1] ELSE oMapMirror[camera.rotate + 1]

\* The 'frame' listener's choice of the orientation code from the settings.
orientation(camera) ==
  IF camera.mirror THEN oMapMirror[camera.rotate + 1] ELSE oMap[camera.rotate + 1]

\* Faulty variant: every chunk is given the segment.
assemble_AnnotatesEveryChunk(img, camera) ==
  [i \in DOMAIN img |-> addExifToJpeg(img[i], orientation(camera))]

\* Buffer.concat([jpegHeader, ...s.curImage.slice(1)]): the payload of a frame.
assemble(img, camera) ==
  <<addExifToJpeg(img[1], orientation(camera))>> \o Tail(img)

\* Faulty variant: the segment is spliced into the session's header chunk
\* itself.
curImageAfter_HeaderRewritten(img, camera) ==
  <<addExifToJpeg(img[1], orientation(camera))>> \o Tail(img)

\* s.curImage once the listener has returned: the listener assigns nothing to
\* it, slice(1) copies the array, and addExifToJpeg and Buffer.concat return
\* new buffers.
curImageAfter(img, camera) == img

\* Buffer.length of a chunk: its JPEG bytes and, when it was given one, the
\* EXIF segment.  The sizes are those of the sample chunks.
byteLength(chunk) ==
  (CASE chunk.bytes = "soi" -> 20 [] chunk.bytes = "d1" -> 85 [] OTHER -> 7)
  + (IF chunk.exif = 0 THEN 0 ELSE 30)

\* assembled.length, the length of the buffer Buffer.concat returns.
RECURSIVE length(_)
length(payload) ==
  IF payload = <<>> THEN 0 ELSE byteLength(Head(payload)) + length(Tail(payload))

\* `${assembled.length}`: the decimal digits of a length.
RECURSIVE decimal(_)
decimal(n) == IF n < 10 THEN <<n>> ELSE Append(decimal(n \div 10), n % 10)

\* One res.write call.  part: "boundary" (the opening boundary of the
\* /camera/ route), "header" and "payload" (the two writes of a frame),
\* "data", "base64" and "blank" (the three writes of an audio chunk); frame:
\* the event written; contentLength: the digits in a frame header; length:
\* the image bytes in a frame payload.
Write(part, frame) == [part |-> part, frame |-> frame, contentLength |-> <<>>, length |-> 0]

\* res.write(`\r\n--${BOUNDARY}\r\n`) of the /camera/ route.
openingBoundary == Write("boundary", 0)

\* Faulty variant: Content-Length is taken from the frame as the session
\* stores it, without the EXIF segment.
frameHeader_LengthOfStoredImage(n, img, camera) ==
  [Write("header", n) EXCEPT !.contentLength = decimal(length(img))]

\* Buffer.from(`\r\n--${BOUNDARY}\r\nContent-Length: ${assembled.length}\r\n
\* Content-Type: image/jpeg\r\n\r\n`) for frame n.
frameHeader(n, img, camera) ==
  [Write("header", n) EXCEPT !.contentLength = decimal(length(assemble(img, camera)))]

\* The buffer assembled as it is written for frame n.
framePayload(n, img, camera) ==
  [Write("payload", n) EXCEPT !.length = length(assemble(img, camera))]

\* Faulty variant: the payload is written before its header.
frameWrites_PayloadFirst(n, img, camera) ==
  <<framePayload(n, img, camera), frameHeader(n, img, camera)>>

\* The body of the 'frame' listener's loop: res.write(header);
\* res.write(assembled).
frameWrites(n, img, camera) ==
  <<frameHeader(n, img, camera), framePayload(n, img, camera)>>

\* The body of the 'audio' listener's loop: res.write("data: ");
\* res.write(b64encoded); res.write("\n\n").
audioWrites(n) == <<Write("data", n), Write("base64", n), Write("blank", n)>>

\* list.forEach((res) => { ... }): the calls of the loop's body on every
\* response object of the list, in the list's order.
RECURSIVE forEachRes(_, _, _)
forEachRes(wr, list, calls) ==
  IF list = <<>> THEN wr
  ELSE forEachRes([wr EXCEPT ![Head(list)] = @ \o calls], Tail(list), calls)

\* The same loop from index i on when the handler of response object j runs
\* during the writes on j.
RECURSIVE forEachResClosing(_, _, _, _, _)
forEachResClosing(wr, arr, i, calls, j) ==
  IF i > Len(arr) THEN wr
  ELSE forEachResClosing([wr EXCEPT ![arr[i]] = @ \o calls],
                         IF arr[i] = j THEN iteratedArray(arr, j) ELSE arr,
                         i + 1, calls, j)

\* Faulty variant of the 'frame' listener: the orientation code is kept from
\* the frame before.
onFrame_CachedOrientation(s, img) ==
  /\ nEvents' = nEvents + 1
  /\ lastEvent' = [dev |-> s, kind |-> "video", sid |-> sessions[s].sid]
  /\ assembled' = IF assembled = <<>> THEN assemble(img, cameras[s])
                  ELSE <<addExifToJpeg(img[1], assembled[1].exif)>> \o Tail(img)
  /\ curImage' = [curImage EXCEPT ![s] = curImageAfter(img, cameras[s])]
  /\ writes' = fanOut(writes, responses[s].list, nEvents + 1)
  /\ wire' = forEachRes(wire, responses[s].list, frameWrites(nEvents + 1, img, cameras[s]))

\* Faulty variant of the 'frame' listener's loop: it writes to the response
\* objects of every device.
onFrame_AllDevices(s, img) ==
  /\ nEvents' = nEvents + 1
  /\ lastEvent' = [dev |-> s, kind |-> "video", sid |-> sessions[s].sid]
  /\ assembled' = assemble(img, cameras[s])
  /\ curImage' = [curImage EXCEPT ![s] = curImageAfter(img, cameras[s])]
  /\ writes' = [k \in Subs |->
                  IF subs[k].kind = "video" /\ \E d \in SafeIds : k \in Members(responses[d].list)
                  THEN Append(writes[k], nEvents + 1) ELSE writes[k]]
  /\ wire' = [k \in Subs |->
                IF subs[k].kind = "video" /\ \E d \in SafeIds : k \in Members(responses[d].list)
                THEN wire[k] \o frameWrites(nEvents + 1, img, cameras[s]) ELSE wire[k]]

\* The 'frame' listener of the session stored under s, which holds the
\* complete frame img in s.curImage: the frame is given the EXIF segment the
\* device's settings select, and its header and payload are written to every
\* response object in responses[s].
onFrame(s, img) ==
  /\ nEvents' = nEvents + 1
  /\ lastEvent' = [dev |-> s, kind |-> "video", sid |-> sessions[s].sid]
  /\ assembled' = assemble(img, cameras[s])
  /\ curImage' = [curImage EXCEPT ![s] = curImageAfter(img, cameras[s])]
  /\ writes' = fanOut(writes, responses[s].list, nEvents + 1)
  /\ wire' = forEachRes(wire, responses[s].list, frameWrites(nEvents + 1, img, cameras[s]))

\* The 'audio' event of the session stored under s.  The listener is attached
\* only when the device's audio setting was on when the session was made; it
\* writes the chunk to every response object in audioResponses[s].
onAudio(s) ==
  /\ nEvents' = nEvents + 1
  /\ lastEvent' = [dev |-> s, kind |-> "audio", sid |-> sessions[s].sid]
  /\ writes' = IF sessions[s].audio
                THEN fanOut(writes, audioResponses[s].list, nEvents + 1)
                ELSE writes
  /\ wire' = IF sessions[s].audio
              THEN forEachRes(wire, audioResponses[s].list, audioWrites(nEvents + 1))
              ELSE wire

\* Payloads that reach a session's transport: a fragment of a frame, the
\* frame-boundary indicator, a malformed payload, an audio unit.
Fragments == { [kind |-> "fragment", chunk |-> Chunk(b)] : b \in {"soi", "d1"} }
Payloads ==
  Fragments \cup { [kind |-> k, chunk |-> Chunk("")] : k \in {"boundary", "malformed", "audio"} }

\* Faulty variant: a torn-down session still handles what arrives.
handlePayload_IgnoresClosed(s, p) ==
  LET l == [link[s] EXCEPT !.arrived = @ + 1]
  IN CASE p.kind = "fragment" ->
            /\ link' = [link EXCEPT ![s] = [l EXCEPT !.buffer = Append(@, p.chunk)]]
            /\ UNCHANGED <<nEvents, lastEvent, assembled, curImage, writes, wire>>
       [] p.kind = "boundary" /\ l.buffer \in Images ->
            /\ link' = [link EXCEPT ![s] = [l EXCEPT !.buffer = <<>>]]
            /\ onFrame(s, l.buffer)
       [] p.kind = "audio" ->
            /\ link' = [link EXCEPT ![s] = l]
            /\ onAudio(s)
            /\ UNCHANGED <<assembled, curImage>>
       [] OTHER ->
            /\ link' = [link EXCEPT ![s] = [l EXCEPT !.buffer = <<>>]]
            /\ UNCHANGED <<nEvents, lastEvent, assembled, curImage, writes, wire>>

\* Faulty variant: every fragment is published as it arrives.
handlePayload_PublishesFragments(s, p) ==
  LET l == [link[s] EXCEPT !.arrived = @ + 1]
  IN IF l.closed
     THEN /\ link' = [link EXCEPT ![s] = l]
          /\ UNCHANGED <<nEvents, lastEvent, assembled, curImage, writes, wire>>
     ELSE CASE p.kind = "fragment" ->
                 /\ link' = [link EXCEPT ![s] = [l EXCEPT !.buffer = Append(@, p.chunk)]]
                 /\ onFrame(s, Append(l.buffer, p.chunk))
            [] p.kind = "boundary" /\ l.buffer \in Images ->
                 /\ link' = [link EXCEPT ![s] = [l EXCEPT !.buffer = <<>>]]
                 /\ onFrame(s, l.buffer)
            [] p.kind = "audio" ->
                 /\ link' = [link EXCEPT ![s] = l]
                 /\ onAudio(s)
                 /\ UNCHANGED <<assembled, curImage>>
            [] OTHER ->
                 /\ link' = [link EXCEPT ![s] = [l EXCEPT !.buffer = <<>>]]
                 /\ UNCHANGED <<nEvents, lastEvent, assembled, curImage, writes, wire>>

\* The session's handling of a payload that reaches its transport.  A
\* torn-down session raises nothing.  Fragments are buffered; the boundary
\* indicator turns a complete buffer into s.curImage and raises 'frame'; a
\* malformed payload, or a boundary on a sequence that is no complete frame,
\* empties the buffer and nothing else; an audio unit raises 'audio'.
handlePayload(s, p) ==
  LET l == [link[s] EXCEPT !.arrived = @ + 1]
  IN IF l.closed
     THEN /\ link' = [link EXCEPT ![s] = l]
          /\ UNCHANGED <<nEvents, lastEvent, assembled, curImage, writes, wire>>
     ELSE CASE p.kind = "fragment" ->
                 /\ link' = [link EXCEPT ![s] = [l EXCEPT !.buffer = Append(@, p.chunk)]]
                 /\ UNCHANGED <<nEvents, lastEvent, assembled, curImage, writes, wire>>
            [] p.kind = "boundary" /\ l.buffer \in Images ->
                 /\ link' = [link EXCEPT ![s] = [l EXCEPT !.buffer = <<>>]]
                 /\ onFrame(s, l.buffer)
            [] p.kind = "audio" ->
                 /\ link' = [link EXCEPT ![s] = l]
                 /\ onAudio(s)
                 /\ UNCHANGED <<assembled, curImage>>
            [] OTHER ->
                 /\ link' = [link EXCEPT ![s] = [l EXCEPT !.buffer = <<>>]]
                 /\ UNCHANGED <<nEvents, lastEvent, assembled, curImage, writes, wire>>

\* Faulty variant: the session is marked but stays in the registry.
onDisconnect_KeepsEntry(s) ==
  sessions' = [sessions EXCEPT ![s].connected = FALSE]

\* The 'disconnect' listener of the session stored under s: delete sessions[s].
onDisconnect(s) ==
  sessions' = [sessions EXCEPT ![s] = NoSession]

\* ---------------------------------------------------------------- actions

RECURSIVE SumTo(_, _)
SumTo(f, n) == IF n = 0 THEN 0 ELSE f[n] + SumTo(f, n - 1)

TotalStops == SumTo([r \in Runs |-> runs[r].stopCalls], MaxRuns)
TotalSendErrors == SumTo([r \in Runs |-> runs[r].sendErrLogged], MaxRuns)

\* serveHttp: start the initial run and track it.  When discoverDevices throws,
\* the exception leaves serveHttp before the HTTP server exists.
ServeHttp(ok) ==
  /\ server = "init"
  /\ nRuns < MaxRuns
  /\ nRuns' = nRuns + 1
  /\ runs' = [runs EXCEPT ![nRuns + 1] = IF ok THEN startedRun ELSE failedRun]
  /\ server' = IF ok THEN "up" ELSE "crashed"
  /\ activeDiscoveryEmitter' = IF ok THEN nRuns + 1 ELSE NoRun
  /\ UNCHANGED <<nPackets, inHass, lastStatus, registry>>

\* GET /discover while a run is tracked: 409.
DiscoverConflict ==
  /\ server = "up"
  /\ activeDiscoveryEmitter # NoRun
  /\ lastStatus' = 409
  /\ UNCHANGED <<runs, nRuns, nPackets, server, activeDiscoveryEmitter, inHass, registry>>

\* Faulty variant: the route starts a run whatever is tracked.
DiscoverTrigger_NoConflictCheck(ok) ==
  /\ server = "up"
  /\ nRuns < MaxRuns
  /\ nRuns' = nRuns + 1
  /\ runs' = [runs EXCEPT ![nRuns + 1] = IF ok THEN startedRun ELSE failedRun]
  /\ activeDiscoveryEmitter' = IF ok THEN nRuns + 1 ELSE activeDiscoveryEmitter
  /\ lastStatus' = IF ok THEN 200 ELSE 500
  /\ UNCHANGED <<nPackets, server, inHass, registry>>

\* GET /discover while no run is tracked: start one and track it, 200.  When
\* discoverDevices throws, the route's catch answers 500 and nothing is tracked.
DiscoverTrigger(ok) ==
  /\ server = "up"
  /\ activeDiscoveryEmitter = NoRun
  /\ nRuns < MaxRuns
  /\ nRuns' = nRuns + 1
  /\ runs' = [runs EXCEPT ![nRuns + 1] = IF ok THEN startedRun ELSE failedRun]
  /\ activeDiscoveryEmitter' = IF ok THEN nRuns + 1 ELSE NoRun
  /\ lastStatus' = IF ok THEN 200 ELSE 500
  /\ UNCHANGED <<nPackets, server, inHass, registry>>

\* Faulty variant: discoveryRunning is one module-level flag instead of a
\* variable of each discoverDevices call.
RunStep_SharedFlag(r, d2) ==
  /\ runs' = [q \in Runs |->
                IF q = r THEN d2
                ELSE IF runs[q].handle = "returned"
                     THEN [runs[q] EXCEPT !.discoveryRunning = d2.discoveryRunning]
                     ELSE runs[q]]
  /\ activeDiscoveryEmitter' = TrackedAfter(r, runs[r], d2, activeDiscoveryEmitter)

\* Run r takes the step d -> d2 of one of its handlers; the 'close' and 'error'
\* listeners of the HTTP layer run inside it.
RunStep(r, d2) ==
  /\ runs' = [runs EXCEPT ![r] = d2]
  /\ activeDiscoveryEmitter' = TrackedAfter(r, runs[r], d2, activeDiscoveryEmitter)

\* The socket's 'listening' event: bind succeeded.
SockListening(r, failed) ==
  /\ server \in Alive
  /\ runs[r].sockState = "binding"
  /\ TotalSendErrors + Cardinality(failed) <= MaxSendErrors
  /\ RunStep(r, sockOnListening(runs[r], failed))
  /\ UNCHANGED <<nRuns, nPackets, server, inHass, lastStatus, registry>>

\* The socket's 'error' event: bind failed, or receiving failed later.
SockError(r) ==
  /\ server \in Alive
  /\ runs[r].sockState \in {"binding", "listening"}
  /\ runs[r].sockErrors < MaxSockErrors
  /\ RunStep(r, [sockOnError(runs[r]) EXCEPT !.sockErrors = @ + 1])
  /\ UNCHANGED <<nRuns, nPackets, server, inHass, lastStatus, registry>>

\* The socket's 'close' event, once after close().
SockClose(r) ==
  /\ server \in Alive
  /\ runs[r].sockState = "closing"
  /\ RunStep(r, sockOnClose(runs[r]))
  /\ UNCHANGED <<nRuns, nPackets, server, inHass, lastStatus, registry>>

\* The interval callback.
ResendTick(r, failed) ==
  /\ server \in Alive
  /\ runs[r].discoveryInterval
  /\ TickFits(runs[r])
  /\ TotalSendErrors + Cardinality(failed) <= MaxSendErrors
  /\ RunStep(r, [sendLanSearch(runs[r], failed) EXCEPT !.ticks = @ + 1])
  /\ UNCHANGED <<nRuns, nPackets, server, inHass, lastStatus, registry>>

\* The timeout callback.
DiscoveryTimeout(r) ==
  /\ server \in Alive
  /\ runs[r].discoveryTimeout
  /\ TimeoutDue(runs[r])
  /\ RunStep(r, [cleanup(runs[r]) EXCEPT !.timedOut = TRUE])
  /\ UNCHANGED <<nRuns, nPackets, server, inHass, lastStatus, registry>>

\* stopDiscovery(ee) by a holder of the handle: the 'stop' listener runs cleanup.
StopDiscovery(r) ==
  /\ server \in Alive
  /\ runs[r].handle = "returned"
  /\ TotalStops < MaxStops
  /\ RunStep(r, [cleanup(runs[r]) EXCEPT !.stopCalls = @ + 1])
  /\ UNCHANGED <<nRuns, nPackets, server, inHass, lastStatus, registry>>

\* SIGTERM: stop the tracked run, forget it, begin shutting down.
Sigterm ==
  /\ server = "up"
  /\ activeDiscoveryEmitter # NoRun => TotalStops < MaxStops
  /\ IF activeDiscoveryEmitter # NoRun
     THEN LET r == activeDiscoveryEmitter
          IN runs' = [runs EXCEPT ![r] =
                        [cleanup(runs[r]) EXCEPT !.stopCalls = @ + 1]]
     ELSE UNCHANGED runs
  /\ activeDiscoveryEmitter' = NoRun
  /\ server' = "terminating"
  /\ UNCHANGED <<nRuns, nPackets, inHass, lastStatus, registry>>

\* The socket's 'message' event: handleIncomingPunch, and the 'discover'
\* listener when it emits.
SockMessage(r, pkt) ==
  /\ server \in Alive
  /\ runs[r].sockState = "listening"
  /\ nPackets < MaxPackets
  /\ Accepted(pkt) /\ ~sessions[sanitize(pkt.payload)].exists => nSessions < MaxSessions
  /\ nPackets' = nPackets + 1
  /\ LET d == [runs[r] EXCEPT !.received[pkt] = @ + 1]
         d2 == handleIncomingPunch(d, pkt)
     IN /\ RunStep(r, d2)
        /\ IF d2.discoverEmitted # d.discoverEmitted
           THEN onDiscover(r, pkt.address, pkt.payload)
           ELSE UNCHANGED registry
  /\ UNCHANGED <<nRuns, server, inHass, lastStatus>>

\* A datagram for a socket that is closing or closed is not delivered.
UdpDropped(r) ==
  /\ server \in Alive
  /\ runs[r].sockState \in {"closing", "closed"}
  /\ nPackets < MaxPackets
  /\ nPackets' = nPackets + 1
  /\ UNCHANGED <<runs, nRuns, server, activeDiscoveryEmitter, inHass, lastStatus, registry>>

\* discoverDevices called by another holder of the module while the server is
\* up: a run of its own, which the HTTP layer does not track.
DiscoverDevices(ok) ==
  /\ server = "up"
  /\ nRuns < MaxRuns
  /\ nRuns' = nRuns + 1
  /\ runs' = [runs EXCEPT ![nRuns + 1] = IF ok THEN startedRun ELSE failedRun]
  /\ UNCHANGED <<nPackets, server, activeDiscoveryEmitter, inHass, lastStatus, registry>>

\* The handshake of the session stored under s completes: s.connected is set
\* and startSessionCallback requests the video stream.
SessionConnected(s) ==
  /\ server \in Alive
  /\ sessions[s].exists /\ ~sessions[s].connected
  /\ sessions' = [sessions EXCEPT ![s].connected = TRUE]
  /\ UNCHANGED <<runs, nRuns, nPackets, server, activeDiscoveryEmitter, inHass, lastStatus,
                 curImage, assembled, link,
                 nSessions, streams, responses, audioResponses, cameras,
                 discoveredThisRun, notifications>>

\* The session stored under s raises 'disconnect' (timeout, close or error).
SessionDisconnect(s) ==
  /\ server \in Alive
  /\ sessions[s].exists
  /\ onDisconnect(s)
  /\ disconnects' = [disconnects EXCEPT ![s] = @ + 1]
  /\ UNCHANGED <<runs, nRuns, nPackets, server, activeDiscoveryEmitter, inHass, lastStatus,
                 curImage, assembled, link,
                 nSessions, subs, nSubs, nEvents, lastEvent, writes, wire, responses,
                 audioResponses, cameras, discoveredThisRun, notifications>>

\* The status the /camera/ and /audio/ routes answer with: 404 without a
\* session, 503 while it is not connected, 200 when the stream starts.
streamStatus(session) ==
  IF ~session.exists THEN 404 ELSE IF ~session.connected THEN 503 ELSE 200

\* Faulty variant: a new response object is first sent the session's current
\* frame.
CameraRoute_ReplaysCurrentFrame(s) ==
  /\ server = "up"
  /\ nSubs < MaxSubs
  /\ IF sessions[s].exists /\ sessions[s].connected
     THEN /\ nSubs' = nSubs + 1
          /\ subs' = [subs EXCEPT ![nSubs + 1] =
                        [sink |-> "open", dev |-> s, kind |-> "video", since |-> nEvents]]
          /\ responses' = [responses EXCEPT ![s] =
                             [defined |-> TRUE, list |-> Append(@.list, nSubs + 1)]]
          /\ writes' = [writes EXCEPT ![nSubs + 1] =
                          IF lastEvent.kind = "video" /\ lastEvent.dev = s
                          THEN <<nEvents>> ELSE <<>>]
          /\ wire' = [wire EXCEPT ![nSubs + 1] =
                        IF lastEvent.kind = "video" /\ lastEvent.dev = s /\ curImage[s] # <<>>
                        THEN <<openingBoundary>> \o frameWrites(nEvents, curImage[s], cameras[s])
                        ELSE <<openingBoundary>>]
     ELSE UNCHANGED <<nSubs, subs, responses, writes, wire>>
  /\ lastStatus' = streamStatus(sessions[s])
  /\ UNCHANGED <<runs, nRuns, nPackets, server, activeDiscoveryEmitter, inHass,
                 curImage, assembled, link,
                 sessions, nSessions, nEvents, lastEvent, audioResponses, cameras,
                 discoveredThisRun, notifications, disconnects>>

\* GET /camera/<s>: 404 without a session, 503 while it is not connected;
\* otherwise the response object joins responses[s] and gets the opening
\* boundary, nothing of the current frame.
CameraRoute(s) ==
  /\ server = "up"
  /\ nSubs < MaxSubs
  /\ IF sessions[s].exists /\ sessions[s].connected
     THEN /\ nSubs' = nSubs + 1
          /\ subs' = [subs EXCEPT ![nSubs + 1] =
                        [sink |-> "open", dev |-> s, kind |-> "video", since |-> nEvents]]
          /\ responses' = [responses EXCEPT ![s] =
                             [defined |-> TRUE, list |-> Append(@.list, nSubs + 1)]]
          /\ wire' = [wire EXCEPT ![nSubs + 1] = <<openingBoundary>>]
     ELSE UNCHANGED <<nSubs, subs, responses, wire>>
  /\ lastStatus' = streamStatus(sessions[s])
  /\ UNCHANGED <<runs, nRuns, nPackets, server, activeDiscoveryEmitter, inHass,
                 curImage, assembled, link,
                 sessions, nSessions, nEvents, lastEvent, writes, audioResponses, cameras,
                 discoveredThisRun, notifications, disconnects>>

\* Faulty variant: the response object joins audioResponses[s] whenever the
\* session exists, connected or not.
AudioRoute_NoConnectedCheck(s) ==
  /\ server = "up"
  /\ nSubs < MaxSubs
  /\ IF sessions[s].exists
     THEN /\ nSubs' = nSubs + 1
          /\ subs' = [subs EXCEPT ![nSubs + 1] =
                        [sink |-> "open", dev |-> s, kind |-> "audio", since |-> nEvents]]
          /\ audioResponses' = [audioResponses EXCEPT ![s] =
                                  [defined |-> TRUE, list |-> Append(@.list, nSubs + 1)]]
          /\ lastStatus' = 200
     ELSE /\ UNCHANGED <<nSubs, subs, audioResponses>>
          /\ lastStatus' = 404
  /\ UNCHANGED <<runs, nRuns, nPackets, server, activeDiscoveryEmitter, inHass,
                 curImage, assembled, link,
                 sessions, nSessions, nEvents, lastEvent, writes, wire, responses, cameras,
                 discoveredThisRun, notifications, disconnects>>

\* GET /audio/<s>: the same with audioResponses[s].
AudioRoute(s) ==
  /\ server = "up"
  /\ nSubs < MaxSubs
  /\ IF sessions[s].exists /\ sessions[s].connected
     THEN /\ nSubs' = nSubs + 1
          /\ subs' = [subs EXCEPT ![nSubs + 1] =
                        [sink |-> "open", dev |-> s, kind |-> "audio", since |-> nEvents]]
          /\ audioResponses' = [audioResponses EXCEPT ![s] =
                                  [defined |-> TRUE, list |-> Append(@.list, nSubs + 1)]]
     ELSE UNCHANGED <<nSubs, subs, audioResponses>>
  /\ lastStatus' = streamStatus(sessions[s])
  /\ UNCHANGED <<runs, nRuns, nPackets, server, activeDiscoveryEmitter, inHass,
                 curImage, assembled, link,
                 sessions, nSessions, nEvents, lastEvent, writes, wire, responses, cameras,
                 discoveredThisRun, notifications, disconnects>>

\* The sink of response object k stops accepting writes: the client stops
\* reading (res.write returns false from now on), or the connection goes away
\* or fails and the server has not been told yet.
SinkStalled(k) ==
  /\ subs[k].sink = "open"
  /\ subs' = [subs EXCEPT ![k].sink = "stalled"]
  /\ UNCHANGED <<runs, nRuns, nPackets, server, activeDiscoveryEmitter, inHass, lastStatus,
                 curImage, assembled, link,
                 sessions, nSessions, nSubs, nEvents, lastEvent, writes, wire, responses, audioResponses,
                 cameras, discoveredThisRun, notifications, disconnects>>

\* res.on("error") of a /camera/ response: remove it from responses[devId].
ResError(k) ==
  /\ server \in Alive
  /\ subs[k].sink = "stalled" /\ subs[k].kind = "video"
  /\ subs' = [subs EXCEPT ![k].sink = "errored"]
  /\ responses' = [responses EXCEPT ![subs[k].dev] =
                      [defined |-> TRUE, list |-> Without(@.list, k)]]
  /\ UNCHANGED <<runs, nRuns, nPackets, server, activeDiscoveryEmitter, inHass, lastStatus,
                 curImage, assembled, link,
                 sessions, nSessions, nSubs, nEvents, lastEvent, writes, wire, audioResponses,
                 cameras, discoveredThisRun, notifications, disconnects>>

\* Faulty variant: the /audio/ route registers no 'close' handler.
ResClose_NoAudioHandler(k) ==
  /\ server \in Alive
  /\ subs[k].sink \in {"stalled", "errored"}
  /\ subs' = [subs EXCEPT ![k].sink = "closed"]
  /\ IF subs[k].kind = "video"
     THEN responses' = [responses EXCEPT ![subs[k].dev] =
                          [defined |-> TRUE, list |-> Without(@.list, k)]]
     ELSE UNCHANGED responses
  /\ UNCHANGED <<runs, nRuns, nPackets, server, activeDiscoveryEmitter, inHass, lastStatus,
                 curImage, assembled, link,
                 sessions, nSessions, nSubs, nEvents, lastEvent, writes, wire, audioResponses,
                 cameras, discoveredThisRun, notifications, disconnects>>

\* res.on("close") of a /camera/ response, req.on("close") of an /audio/
\* request: remove the response object from the device's list.
ResClose(k) ==
  /\ server \in Alive
  /\ subs[k].sink \in {"stalled", "errored"}
  /\ subs' = [subs EXCEPT ![k].sink = "closed"]
  /\ IF subs[k].kind = "video"
     THEN /\ responses' = [responses EXCEPT ![subs[k].dev] =
                             [defined |-> TRUE, list |-> Without(@.list, k)]]
          /\ UNCHANGED audioResponses
     ELSE /\ audioResponses' = [audioResponses EXCEPT ![subs[k].dev] =
                                  [defined |-> TRUE, list |-> Without(@.list, k)]]
          /\ UNCHANGED responses
  /\ UNCHANGED <<runs, nRuns, nPackets, server, activeDiscoveryEmitter, inHass, lastStatus,
                 curImage, assembled, link,
                 sessions, nSessions, nSubs, nEvents, lastEvent, writes, wire,
                 cameras, discoveredThisRun, notifications, disconnects>>

\* Faulty variant: the new position is not reduced modulo 4.
RotateRoute_NoWrap(s) ==
  /\ server = "up"
  /\ IF cameras[s].present
     THEN /\ cameras' = [cameras EXCEPT ![s].rotate = @ + 1, ![s].unset = @ \ {"rotate"}]
          /\ lastStatus' = 204
     ELSE /\ lastStatus' = 404
          /\ UNCHANGED cameras
  /\ UNCHANGED <<runs, nRuns, nPackets, server, activeDiscoveryEmitter, inHass, streams,
                 sessions, nSessions, curImage, link, responses, audioResponses,
                 discoveredThisRun, notifications>>

\* GET /rotate/<s>: the device's rotate setting moves on by one, modulo 4;
\* 404 when the device has no settings.
RotateRoute(s) ==
  /\ server = "up"
  /\ IF cameras[s].present
     THEN /\ cameras' = [cameras EXCEPT ![s] = rotated(@)]
          /\ lastStatus' = 204
     ELSE /\ lastStatus' = 404
          /\ UNCHANGED cameras
  /\ UNCHANGED <<runs, nRuns, nPackets, server, activeDiscoveryEmitter, inHass, streams,
                 sessions, nSessions, curImage, link, responses, audioResponses,
                 discoveredThisRun, notifications>>

\* Faulty variant: without the test for an entry, the assignment making one.
MirrorRoute_CreatesEntry(s) ==
  /\ server = "up"
  /\ cameras' = [cameras EXCEPT ![s] = [mirrored(@) EXCEPT !.present = TRUE]]
  /\ lastStatus' = 204
  /\ UNCHANGED <<runs, nRuns, nPackets, server, activeDiscoveryEmitter, inHass, streams,
                 sessions, nSessions, curImage, link, responses, audioResponses,
                 discoveredThisRun, notifications>>

\* GET /mirror/<s>: the device's mirror setting is inverted; 404 when the
\* device has no settings.
MirrorRoute(s) ==
  /\ server = "up"
  /\ IF cameras[s].present
     THEN /\ cameras' = [cameras EXCEPT ![s] = mirrored(@)]
          /\ lastStatus' = 204
     ELSE /\ lastStatus' = 404
          /\ UNCHANGED cameras
  /\ UNCHANGED <<runs, nRuns, nPackets, server, activeDiscoveryEmitter, inHass, streams,
                 sessions, nSessions, curImage, link, responses, audioResponses,
                 discoveredThisRun, notifications>>

\* The session stored under s, connected and streaming, has the complete
\* frame img in s.curImage and emits 'frame'.
SessionFrameOf(s, img) ==
  /\ server \in Alive
  /\ sessions[s].exists /\ sessions[s].connected
  /\ nEvents < MaxEvents
  /\ onFrame(s, img)
  /\ UNCHANGED <<runs, nRuns, nPackets, server, activeDiscoveryEmitter, inHass, lastStatus, link,
                 sessions, nSessions, subs, nSubs, responses, audioResponses,
                 cameras, discoveredThisRun, notifications, disconnects>>

\* The same with a frame of two chunks.
SessionFrame(s) == SessionFrameOf(s, SampleImage)

\* The session stored under s, connected and streaming, emits 'audio'.
SessionAudio(s) ==
  /\ server \in Alive
  /\ sessions[s].exists /\ sessions[s].connected
  /\ nEvents < MaxEvents
  /\ onAudio(s)
  /\ UNCHANGED <<runs, nRuns, nPackets, server, activeDiscoveryEmitter, inHass, lastStatus,
                 curImage, assembled, link,
                 sessions, nSessions, subs, nSubs, responses, audioResponses,
                 cameras, discoveredThisRun, notifications, disconnects>>

\* The session stored under s emits 'frame', and the pending 'close' handler
\* of response object j runs while the listener's loop is at j.
SessionFrameClosing(s, j) ==
  /\ server \in Alive
  /\ sessions[s].exists /\ sessions[s].connected
  /\ nEvents < MaxEvents
  /\ j \in Members(responses[s].list)
  /\ subs[j].sink = "stalled"
  /\ nEvents' = nEvents + 1
  /\ lastEvent' = [dev |-> s, kind |-> "video", sid |-> sessions[s].sid]
  /\ curImage' = [curImage EXCEPT ![s] = curImageAfter(SampleImage, cameras[s])]
  /\ assembled' = assemble(SampleImage, cameras[s])
  /\ writes' = forEachWrite(writes, responses[s].list, 1, nEvents + 1, j)
  /\ wire' = forEachResClosing(wire, responses[s].list, 1,
                               frameWrites(nEvents + 1, SampleImage, cameras[s]), j)
  /\ subs' = [subs EXCEPT ![j].sink = "closed"]
  /\ responses' = [responses EXCEPT ![s] =
                      [defined |-> TRUE, list |-> Without(@.list, j)]]
  /\ UNCHANGED <<runs, nRuns, nPackets, server, activeDiscoveryEmitter, inHass, lastStatus, link,
                 sessions, nSessions, nSubs, audioResponses,
                 cameras, discoveredThisRun, notifications, disconnects>>

\* Time passes for the session stored under s while it waits for the
\* handshake reply: its window of HANDSHAKE_MS is over.
HandshakeWindowOver(s) ==
  /\ server \in Alive
  /\ sessions[s].exists /\ ~sessions[s].connected
  /\ ~link[s].closed /\ link[s].waited < HANDSHAKE_MS
  /\ link' = [link EXCEPT ![s].waited = HANDSHAKE_MS]
  /\ UNCHANGED <<runs, nRuns, nPackets, server, activeDiscoveryEmitter, inHass, lastStatus,
                 sessions, nSessions, streams, curImage, responses, audioResponses, cameras,
                 discoveredThisRun, notifications>>

\* Faulty variant: the timeout tears the session down without telling anyone.
HandshakeTimeout_Silent(s) ==
  /\ server \in Alive
  /\ sessions[s].exists /\ ~sessions[s].connected
  /\ ~link[s].closed /\ link[s].waited >= HANDSHAKE_MS
  /\ link' = [link EXCEPT ![s].closed = TRUE]
  /\ UNCHANGED <<runs, nRuns, nPackets, server, activeDiscoveryEmitter, inHass, lastStatus,
                 sessions, nSessions, streams, curImage, responses, audioResponses, cameras,
                 discoveredThisRun, notifications>>

\* The handshake timer of the session stored under s fires after the window
\* without a reply: the session is torn down and raises 'disconnect'.
HandshakeTimeout(s) ==
  /\ server \in Alive
  /\ sessions[s].exists /\ ~sessions[s].connected
  /\ ~link[s].closed /\ link[s].waited >= HANDSHAKE_MS
  /\ link' = [link EXCEPT ![s].closed = TRUE]
  /\ onDisconnect(s)
  /\ disconnects' = [disconnects EXCEPT ![s] = @ + 1]
  /\ UNCHANGED <<runs, nRuns, nPackets, server, activeDiscoveryEmitter, inHass, lastStatus,
                 nSessions, subs, nSubs, nEvents, lastEvent, writes, wire, assembled,
                 curImage, responses, audioResponses, cameras,
                 discoveredThisRun, notifications>>

\* The handshake reply of the session stored under s arrives within the
\* window: s.connected is set and startSessionCallback runs.  When
\* startVideoStream throws (ok = FALSE) the callback calls s.close(), which
\* tears the session down and raises 'disconnect'.
HandshakeReply(s, ok) ==
  /\ server \in Alive
  /\ sessions[s].exists /\ ~sessions[s].connected
  /\ ~link[s].closed /\ link[s].waited < HANDSHAKE_MS
  /\ IF ok
     THEN /\ sessions' = [sessions EXCEPT ![s].connected = TRUE]
          /\ link' = [link EXCEPT ![s].requested = TRUE]
          /\ UNCHANGED disconnects
     ELSE /\ link' = [link EXCEPT ![s].closed = TRUE]
          /\ onDisconnect(s)
          /\ disconnects' = [disconnects EXCEPT ![s] = @ + 1]
  /\ UNCHANGED <<runs, nRuns, nPackets, server, activeDiscoveryEmitter, inHass, lastStatus,
                 nSessions, subs, nSubs, nEvents, lastEvent, writes, wire, assembled,
                 curImage, responses, audioResponses, cameras,
                 discoveredThisRun, notifications>>

\* The transport of the connected session stored under s fails or its
\* keepalive runs out: the session is torn down and raises 'disconnect'.
TransportLost(s) ==
  /\ server \in Alive
  /\ sessions[s].exists /\ sessions[s].connected
  /\ ~link[s].closed
  /\ link' = [link EXCEPT ![s].closed = TRUE]
  /\ onDisconnect(s)
  /\ disconnects' = [disconnects EXCEPT ![s] = @ + 1]
  /\ UNCHANGED <<runs, nRuns, nPackets, server, activeDiscoveryEmitter, inHass, lastStatus,
                 nSessions, subs, nSubs, nEvents, lastEvent, writes, wire, assembled,
                 curImage, responses, audioResponses, cameras,
                 discoveredThisRun, notifications>>

\* A payload reaches the transport of the Session made last for s, which has
\* asked for the stream or has been torn down.
SessionPayload(s, p) ==
  /\ server \in Alive
  /\ link[s].made /\ (link[s].requested \/ link[s].closed)
  /\ link[s].arrived < MaxPayloads
  /\ (p.kind \in {"boundary", "audio"} /\ ~link[s].closed) => nEvents < MaxEvents
  /\ handlePayload(s, p)
  /\ UNCHANGED <<runs, nRuns, nPackets, server, activeDiscoveryEmitter, inHass, lastStatus,
                 sessions, nSessions, subs, nSubs, disconnects, responses, audioResponses,
                 cameras, discoveredThisRun, notifications>>

Next ==
  \/ \E s \in SafeIds : HandshakeWindowOver(s)
  \/ \E s \in SafeIds : HandshakeTimeout(s)
  \/ \E s \in SafeIds, ok \in BOOLEAN : HandshakeReply(s, ok)
  \/ \E s \in SafeIds : TransportLost(s)
  \/ \E s \in SafeIds, p \in Payloads : SessionPayload(s, p)
  \/ \E s \in SafeIds, j \in Subs : SessionFrameClosing(s, j)
  \/ \E s \in SafeIds : RotateRoute(s)
  \/ \E s \in SafeIds : MirrorRoute(s)
  \/ \E ok \in BOOLEAN : ServeHttp(ok)
  \/ DiscoverConflict
  \/ \E ok \in BOOLEAN : DiscoverTrigger(ok)
  \/ \E r \in Runs, failed \in SUBSET discovery_ips : SockListening(r, failed)
  \/ \E r \in Runs : SockError(r)
  \/ \E r \in Runs : SockClose(r)
  \/ \E r \in Runs, failed \in SUBSET discovery_ips : ResendTick(r, failed)
  \/ \E r \in Runs : DiscoveryTimeout(r)
  \/ \E r \in Runs : StopDiscovery(r)
  \/ Sigterm
  \/ \E r \in Runs, pkt \in Packets : SockMessage(r, pkt)
  \/ \E r \in Runs : UdpDropped(r)
  \/ \E s \in SafeIds : SessionConnected(s)
  \/ \E s \in SafeIds : SessionDisconnect(s)
  \/ \E s \in SafeIds : CameraRoute(s)
  \/ \E s \in SafeIds : AudioRoute(s)
  \/ \E k \in Subs : SinkStalled(k)
  \/ \E k \in Subs : ResError(k)
  \/ \E k \in Subs : ResClose(k)
  \/ \E s \in SafeIds : SessionFrame(s)
  \/ \E s \in SafeIds : SessionAudio(s)

Spec == Init /\ [][Next]_vars

\* The life of the run started by serveHttp, without further /discover runs:
\* every run is a closure of its own, so the engine's properties are per run.
FirstRun == 1

\* The datagrams of devices whose ids stay distinct when sanitised.
EnginePackets == { pkt \in Packets : pkt.payload # TwinId }

NextEngine ==
  \/ \E ok \in BOOLEAN : ServeHttp(ok)
  \/ DiscoverConflict
  \/ \E failed \in SUBSET discovery_ips : SockListening(FirstRun, failed)
  \/ SockError(FirstRun)
  \/ SockClose(FirstRun)
  \/ \E failed \in SUBSET discovery_ips : ResendTick(FirstRun, failed)
  \/ DiscoveryTimeout(FirstRun)
  \/ StopDiscovery(FirstRun)
  \/ Sigterm
  \/ \E pkt \in EnginePackets : SockMessage(FirstRun, pkt)
  \/ UdpDropped(FirstRun)

SpecEngine == Init /\ [][NextEngine]_vars

\* Several runs side by side, each started by a discoverDevices call of its
\* own, with their sockets, timers and stop calls interleaved.
NextRuns ==
  \/ \E ok \in BOOLEAN : ServeHttp(ok)
  \/ \E ok \in BOOLEAN : DiscoverDevices(ok)
  \/ \E r \in Runs : SockListening(r, {})
  \/ \E r \in Runs : SockError(r)
  \/ \E r \in Runs : SockClose(r)
  \/ \E r \in Runs : ResendTick(r, {})
  \/ \E r \in Runs : DiscoveryTimeout(r)
  \/ \E r \in Runs : StopDiscovery(r)

SpecRuns == Init /\ [][NextRuns]_vars

\* The runs the HTTP layer starts and tracks: the initial one and those of
\* /discover, ended by their timeout, a socket error or SIGTERM.
NextDiscover ==
  \/ \E ok \in BOOLEAN : ServeHttp(ok)
  \/ DiscoverConflict
  \/ \E ok \in BOOLEAN : DiscoverTrigger(ok)
  \/ \E r \in Runs : SockListening(r, {})
  \/ \E r \in Runs : SockError(r)
  \/ \E r \in Runs : SockClose(r)
  \/ \E r \in Runs : ResendTick(r, {})
  \/ \E r \in Runs : DiscoveryTimeout(r)
  \/ Sigterm

SpecDiscover == Init /\ [][NextDiscover]_vars

\* The same with the event loop's guarantees: a bind that succeeds is followed
\* by 'listening', a pending interval or timeout callback runs when due, and
\* close() on an open socket is followed by its 'close' event.
SpecDiscoverFair ==
  /\ SpecDiscover
  /\ \A r \in Runs : /\ WF_vars(SockListening(r, {}))
                      /\ WF_vars(ResendTick(r, {}))
                      /\ WF_vars(DiscoveryTimeout(r))
                      /\ WF_vars(SockClose(r))

\* Discovery responses that pass handleIncomingPunch: all of them; those of
\* one address; those of one device.
AcceptedPackets == { pkt \in Packets : Accepted(pkt) }
StreamPackets ==
  { pkt \in AcceptedPackets : pkt.address = "192.168.1.10" /\ pkt.payload # TwinId }
OneDevicePackets == { pkt \in AcceptedPackets : pkt.payload = <<"B", " ", "2">> }

\* The devices whose stream requests are accepted: those with a connected
\* session.
Streamable == { s \in SafeIds : sessions[s].exists /\ sessions[s].connected }

\* The server outside Home Assistant, without configured settings.
InitStandalone == Init /\ ~inHass

\* One device answering from two addresses, over the initial run and runs
\* triggered after a run failed, while its streams are requested.
NextRediscovery ==
  \/ \E ok \in BOOLEAN : ServeHttp(ok)
  \/ \E ok \in BOOLEAN : DiscoverTrigger(ok)
  \/ \E r \in Runs : SockListening(r, {})
  \/ \E r \in Runs : SockError(r)
  \/ \E r \in Runs, pkt \in OneDevicePackets : SockMessage(r, pkt)
  \/ \E s \in SafeIds : SessionConnected(s)
  \/ \E s \in SafeIds : CameraRoute(s)
  \/ \E s \in SafeIds : AudioRoute(s)

SpecRediscovery == InitStandalone /\ [][NextRediscovery]_vars

\* Sessions that come and go during one run: devices answer, sessions connect
\* and disconnect, video streams are requested and frames emitted.
NextSessions ==
  \/ \E ok \in BOOLEAN : ServeHttp(ok)
  \/ SockListening(FirstRun, {})
  \/ \E pkt \in StreamPackets : SockMessage(FirstRun, pkt)
  \/ \E s \in SafeIds : SessionConnected(s)
  \/ \E s \in SafeIds : SessionDisconnect(s)
  \/ \E s \in SafeIds : CameraRoute(s)
  \/ \E s \in SafeIds : SessionFrame(s)

SpecSessions == InitStandalone /\ [][NextSessions]_vars

\* Fan-out: the sessions of two devices, with or without audio in the
\* settings, their video and audio streams, their frames and audio chunks.
NextFanOut ==
  \/ \E ok \in BOOLEAN : ServeHttp(ok)
  \/ SockListening(FirstRun, {})
  \/ \E pkt \in StreamPackets : SockMessage(FirstRun, pkt)
  \/ \E s \in SafeIds : SessionConnected(s)
  \/ \E s \in Streamable : CameraRoute(s)
  \/ \E s \in Streamable : AudioRoute(s)
  \/ \E s \in SafeIds : SessionFrame(s)
  \/ \E s \in SafeIds : SessionAudio(s)

SpecFanOut == InitConfigured /\ [][NextFanOut]_vars

\* Sinks: the streams of one device whose connections stall, fail and close
\* while its session emits frames and audio chunks.
NextSinks ==
  \/ \E ok \in BOOLEAN : ServeHttp(ok)
  \/ SockListening(FirstRun, {})
  \/ \E pkt \in OneDevicePackets \cap StreamPackets : SockMessage(FirstRun, pkt)
  \/ \E s \in SafeIds : SessionConnected(s)
  \/ \E s \in Streamable : CameraRoute(s)
  \/ \E s \in Streamable : AudioRoute(s)
  \/ \E k \in Subs : SinkStalled(k)
  \/ \E k \in Subs : ResError(k)
  \/ \E k \in Subs : ResClose(k)
  \/ \E s \in SafeIds : SessionFrame(s)
  \/ \E s \in SafeIds : SessionAudio(s)

SpecSinks == InitStandalone /\ [][NextSinks]_vars

\* A start outside Home Assistant with a configuration that may hold rotate
\* and mirror settings for the device.
InitOrientation ==
  /\ runs = [r \in Runs |-> UnusedRun]
  /\ nRuns = 0
  /\ nPackets = 0
  /\ server = "init"
  /\ activeDiscoveryEmitter = NoRun
  /\ inHass = FALSE
  /\ lastStatus = 0
  /\ sessions = [s \in SafeIds |-> NoSession]
  /\ nSessions = 0
  /\ subs = [k \in Subs |-> NoSub]
  /\ nSubs = 0
  /\ nEvents = 0
  /\ lastEvent = NoEvent
  /\ writes = [k \in Subs |-> <<>>]
  /\ wire = [k \in Subs |-> <<>>]
  /\ disconnects = [s \in SafeIds |-> 0]
  /\ curImage = [s \in SafeIds |-> <<>>]
  /\ link = [s \in SafeIds |-> NoLink]
  /\ assembled = <<>>
  /\ responses = [s \in SafeIds |-> NoList]
  /\ audioResponses = [s \in SafeIds |-> NoList]
  /\ discoveredThisRun = [r \in Runs |-> {}]
  /\ notifications = [r \in Runs |-> [id \in DevIds |-> 0]]
  /\ \E rot \in 0..3, mir \in BOOLEAN :
       cameras \in { [s \in SafeIds |-> NoCamera],
                     [s \in SafeIds |->
                        IF \E pkt \in OneDevicePackets : s = sanitize(pkt.payload)
                        THEN [present |-> TRUE, rotate |-> rot, mirror |-> mir, audio |-> TRUE,
                              alias |-> "", unset |-> {}]
                        ELSE NoCamera] }

\* Orientation: the frames of one device while its rotate and mirror settings
\* are changed.
NextOrientation ==
  \/ \E ok \in BOOLEAN : ServeHttp(ok)
  \/ SockListening(FirstRun, {})
  \/ \E pkt \in OneDevicePackets \cap StreamPackets : SockMessage(FirstRun, pkt)
  \/ \E s \in SafeIds : SessionConnected(s)
  \/ \E s \in SafeIds : CameraRoute(s)
  \/ \E s \in SafeIds : RotateRoute(s)
  \/ \E s \in SafeIds : MirrorRoute(s)
  \/ \E s \in SafeIds, img \in Images : SessionFrameOf(s, img)

SpecOrientation == InitOrientation /\ [][NextOrientation]_vars

\* Session: one device's session from makeSession to its teardown, with the
\* payloads that reach its transport and one video subscriber.
NextSession ==
  \/ \E ok \in BOOLEAN : ServeHttp(ok)
  \/ SockListening(FirstRun, {})
  \/ \E pkt \in OneDevicePackets \cap StreamPackets : SockMessage(FirstRun, pkt)
  \/ \E s \in SafeIds : HandshakeWindowOver(s)
  \/ \E s \in SafeIds : HandshakeTimeout(s)
  \/ \E s \in SafeIds, ok \in BOOLEAN : HandshakeReply(s, ok)
  \/ \E s \in SafeIds : TransportLost(s)
  \/ \E s \in Streamable : CameraRoute(s)
  \/ \E s \in SafeIds, p \in Payloads : SessionPayload(s, p)

SpecSession == InitStandalone /\ [][NextSession]_vars

\* Handshake: the sessions of two devices from makeSession to the handshake
\* reply or the end of its window.
NextHandshake ==
  \/ \E ok \in BOOLEAN : ServeHttp(ok)
  \/ SockListening(FirstRun, {})
  \/ \E pkt \in StreamPackets : SockMessage(FirstRun, pkt)
  \/ \E s \in SafeIds : HandshakeWindowOver(s)
  \/ \E s \in SafeIds : HandshakeTimeout(s)
  \/ \E s \in SafeIds, ok \in BOOLEAN : HandshakeReply(s, ok)
  \/ \E s \in SafeIds : CameraRoute(s)

\* A session's handshake timer, once due, fires.
SpecHandshake ==
  /\ InitStandalone /\ [][NextHandshake]_vars
  /\ \A s \in SafeIds : WF_vars(HandshakeTimeout(s))

\* Removal during fan-out: the video streams of one device when a 'close'
\* handler runs inside the 'frame' listener's loop.
NextMidFanOut ==
  \/ \E ok \in BOOLEAN : ServeHttp(ok)
  \/ SockListening(FirstRun, {})
  \/ \E pkt \in OneDevicePackets \cap StreamPackets : SockMessage(FirstRun, pkt)
  \/ \E s \in SafeIds : SessionConnected(s)
  \/ \E s \in SafeIds : CameraRoute(s)
  \/ \E k \in Subs : SinkStalled(k)
  \/ \E s \in SafeIds : SessionFrame(s)
  \/ \E s \in SafeIds, j \in Subs : SessionFrameClosing(s, j)

SpecMidFanOut == InitStandalone /\ [][NextMidFanOut]_vars

\* Framing: the video streams of two devices, with frames of different
\* lengths written to them.
NextFraming ==
  \/ \E ok \in BOOLEAN : ServeHttp(ok)
  \/ SockListening(FirstRun, {})
  \/ \E pkt \in StreamPackets : SockMessage(FirstRun, pkt)
  \/ \E s \in SafeIds : SessionConnected(s)
  \/ \E s \in SafeIds : CameraRoute(s)
  \/ \E s \in SafeIds, img \in Images : SessionFrameOf(s, img)

SpecFraming == InitStandalone /\ [][NextFraming]_vars

\* Stream requests at any time: before a device is discovered, while its
\* session connects, while it is connected and after it has disconnected.
NextStreams ==
  \/ \E ok \in BOOLEAN : ServeHttp(ok)
  \/ SockListening(FirstRun, {})
  \/ \E pkt \in StreamPackets : SockMessage(FirstRun, pkt)
  \/ \E s \in SafeIds : SessionConnected(s)
  \/ \E s \in SafeIds : SessionDisconnect(s)
  \/ \E s \in SafeIds : CameraRoute(s)
  \/ \E s \in SafeIds : AudioRoute(s)

SpecStreams == InitStandalone /\ [][NextStreams]_vars

\* Entries the configuration file can hold for a device: one with an alias
\* only, one with rotate only, one with every field.
ConfiguredEntries ==
  { [present |-> TRUE, rotate |-> 0, mirror |-> FALSE, audio |-> FALSE, alias |-> "porch",
     unset |-> {"rotate", "mirror", "audio"}],
    [present |-> TRUE, rotate |-> 2, mirror |-> FALSE, audio |-> FALSE, alias |-> "",
     unset |-> {"mirror", "audio"}],
    [present |-> TRUE, rotate |-> 3, mirror |-> TRUE, audio |-> FALSE, alias |-> "porch",
     unset |-> {}] }

\* A start outside Home Assistant with a configuration that may hold an
\* entry, complete or not, for each device.
InitSettings ==
  /\ runs = [r \in Runs |-> UnusedRun]
  /\ nRuns = 0
  /\ nPackets = 0
  /\ server = "init"
  /\ activeDiscoveryEmitter = NoRun
  /\ inHass = FALSE
  /\ lastStatus = 0
  /\ sessions = [s \in SafeIds |-> NoSession]
  /\ nSessions = 0
  /\ subs = [k \in Subs |-> NoSub]
  /\ nSubs = 0
  /\ nEvents = 0
  /\ lastEvent = NoEvent
  /\ writes = [k \in Subs |-> <<>>]
  /\ wire = [k \in Subs |-> <<>>]
  /\ disconnects = [s \in SafeIds |-> 0]
  /\ curImage = [s \in SafeIds |-> <<>>]
  /\ link = [s \in SafeIds |-> NoLink]
  /\ assembled = <<>>
  /\ responses = [s \in SafeIds |-> NoList]
  /\ audioResponses = [s \in SafeIds |-> NoList]
  /\ discoveredThisRun = [r \in Runs |-> {}]
  /\ notifications = [r \in Runs |-> [id \in DevIds |-> 0]]
  /\ cameras \in [SafeIds -> ConfiguredEntries \cup {NoCamera}]

\* Settings: the entries of two devices while the devices are discovered,
\* disconnect and are discovered again, and rotate and mirror requests are
\* answered.
NextSettings ==
  \/ \E ok \in BOOLEAN : ServeHttp(ok)
  \/ SockListening(FirstRun, {})
  \/ \E pkt \in StreamPackets : SockMessage(FirstRun, pkt)
  \/ \E s \in SafeIds : SessionDisconnect(s)
  \/ \E s \in SafeIds : RotateRoute(s)
  \/ \E s \in SafeIds : MirrorRoute(s)

SpecSettings == InitSettings /\ [][NextSettings]_vars

\* The answers of two devices whose ids are sanitised to one key.
TwinPackets ==
  { pkt \in AcceptedPackets :
      pkt.address = "192.168.1.10" /\ sanitize(pkt.payload) = sanitize(TwinId) }

\* Notifications: the runs the HTTP layer starts one after the other, inside
\* or outside Home Assistant, and the answers of the two devices.
NextNotify ==
  \/ \E ok \in BOOLEAN : ServeHttp(ok)
  \/ \E ok \in BOOLEAN : DiscoverTrigger(ok)
  \/ \E r \in Runs : SockListening(r, {})
  \/ \E r \in Runs : SockError(r)
  \/ \E r \in Runs : SockClose(r)
  \/ \E r \in Runs, pkt \in TwinPackets : SockMessage(r, pkt)
  \/ \E s \in SafeIds : SessionDisconnect(s)

SpecNotify == Init /\ [][NextNotify]_vars

TypeOK ==
  /\ \A s \in SafeIds :
       /\ link[s].arrived \in 0..MaxPayloads
       /\ link[s].waited \in {0, HANDSHAKE_MS}
       /\ Len(link[s].buffer) <= MaxPayloads
  /\ \A s \in SafeIds : curImage[s] \in Images \cup {<<>>}
  /\ \A s \in SafeIds : cameras[s].rotate \in 0..3 /\ cameras[s].mirror \in BOOLEAN
  /\ \A s \in SafeIds :
       /\ cameras[s].audio \in BOOLEAN
       /\ cameras[s].alias \in {"", "porch"}
       /\ cameras[s].unset \subseteq {"rotate", "mirror", "audio"}
       /\ sessions[s].exists => cameras[s].present /\ cameras[s].unset = {}
  /\ assembled # <<>> => \E img \in Images : Len(assembled) = Len(img)
  /\ nRuns \in 0..MaxRuns
  /\ nPackets \in 0..MaxPackets
  /\ server \in {"init", "up", "terminating", "crashed"}
  /\ activeDiscoveryEmitter \in {NoRun} \cup Runs
  /\ nSessions \in 0..MaxSessions
  /\ nSubs \in 0..MaxSubs
  /\ nEvents \in 0..MaxEvents
  /\ \A s \in SafeIds : sessions[s].sid \in 0..nSessions
  /\ \A k \in Subs : subs[k].sink \in {"none", "open", "stalled", "errored", "closed"}
  /\ \A k \in Subs : k > nSubs => subs[k] = NoSub /\ writes[k] = <<>>
  /\ \A k \in Subs : \A i \in DOMAIN wire[k] :
       /\ wire[k][i].part \in {"boundary", "header", "payload", "data", "base64", "blank"}
       /\ wire[k][i].frame \in 0..nEvents
  /\ \A r \in Runs :
       /\ runs[r].handle \in {"none", "returned", "thrown"}
       /\ runs[r].sockState \in {"none", "binding", "listening", "closing", "closed"}
       /\ runs[r].ticks \in 0..(TIMEOUT_MS \div RESEND_MS)
       /\ r > nRuns => runs[r] = UnusedRun

\* ----------------------------------------------------------------- claims

RECURSIVE SumOver(_, _)
SumOver(f, S) ==
  IF S = {} THEN 0
  ELSE LET x == CHOOSE y \in S : TRUE IN f[x] + SumOver(f, S \ {x})

\* Datagrams given to run r's 'message' handler, and those among them that
\* pass the command-id test, the blacklist and the parser with device id id.
ReceivedCount(r) == SumOver(runs[r].received, Packets)
AcceptedCount(r, id) ==
  SumOver(runs[r].received, {p \in Packets : Accepted(p) /\ p.payload = id})

\* No handler or timer of run r is still to come.
RunQuiet(r) ==
  /\ runs[r].handle # "none"
  /\ runs[r].sockState \in {"none", "closed"}
  /\ ~runs[r].discoveryInterval
  /\ ~runs[r].discoveryTimeout

C2_CloseAtMostOnce ==
  \A r \in Runs : runs[r].closeEmitted <= 1

C2_Witness ==
  \E r \in Runs :
    /\ runs[r].closeEmitted = 1
    /\ runs[r].stopCalls >= 1
    /\ runs[r].sockErrors >= 1

\* C3 as stated: every run started with discoverDevices raises 'close', also
\* when it ends by a failure to create or bind the socket during start; as a
\* final result: a run with nothing left to happen has raised 'close'.
C3_EveryRunCloses ==
  \A r \in Runs : RunQuiet(r) => runs[r].closeEmitted >= 1

\* C4: once a handle has raised 'close', no 'discover' event is raised on it.
C4_NoDiscoverAfterClose ==
  [][\A r \in Runs :
       runs[r].closeEmitted > 0 => runs'[r].discoverEmitted = runs[r].discoverEmitted]_vars

C4_Witness ==
  \E r \in Runs, id \in DevIds :
    /\ runs[r].closeEmitted > 0
    /\ runs[r].discoverEmitted[id] > 0
    /\ nRuns = 1
    /\ nPackets > ReceivedCount(r)

\* C5: a PunchPkt from a blacklisted source address raises no 'discover'
\* event, whatever its payload and whether or not its device id was seen.
C5_BlacklistedNeverDiscovers ==
  [][\A r \in Runs, pkt \in Packets :
       (pkt.address \in blacklisted_ips /\ runs'[r].received[pkt] > runs[r].received[pkt])
         => /\ runs'[r].discoverEmitted = runs[r].discoverEmitted
            /\ UNCHANGED registry]_vars

C5_Witness ==
  \E r \in Runs, pkt \in Packets :
    /\ pkt.cmd = "PunchPkt"
    /\ pkt.address \in blacklisted_ips
    /\ pkt.payload \in DevIds
    /\ runs[r].received[pkt] >= 1
    /\ runs[r].discoverEmitted[pkt.payload] = 1

\* C6: a packet with another command id, or a PunchPkt whose payload does not
\* parse, raises no event and changes nothing of the run (flag, timers, socket)
\* nor of the HTTP layer; the run goes on listening.
C6_IgnoredPacketChangesNothing ==
  [][\A r \in Runs, pkt \in Packets :
       ((pkt.cmd # "PunchPkt" \/ pkt.payload = Malformed)
          /\ runs'[r].received[pkt] > runs[r].received[pkt])
         => /\ runs'[r] = [runs[r] EXCEPT !.received[pkt] = @ + 1]
            /\ runs[r].sockState = "listening"
            /\ UNCHANGED <<activeDiscoveryEmitter, server, lastStatus, registry>>]_vars

C6_Witness ==
  \E r \in Runs, p1 \in Packets, p2 \in Packets :
    /\ p1.cmd # "PunchPkt"
    /\ p2.cmd = "PunchPkt" /\ p2.payload = Malformed /\ p2.address \notin blacklisted_ips
    /\ runs[r].received[p1] >= 1
    /\ runs[r].received[p2] >= 1
    /\ runs[r].discoveryRunning
    /\ runs[r].sockState = "listening"
    /\ runs[r].discoveryInterval /\ runs[r].discoveryTimeout

\* C7: after stop() neither the resend interval nor the overall timeout of
\* the run is pending in any later state.
C7_NoTimerAfterStop ==
  \A r \in Runs :
    runs[r].stopCalls > 0 => ~runs[r].discoveryInterval /\ ~runs[r].discoveryTimeout

\* stop() reached the run while both timers were pending: LanSearch had been
\* sent, and neither the timeout nor a socket error had cleaned up.
C7_Witness ==
  \E r \in Runs :
    /\ runs[r].stopCalls > 0
    /\ \A ip \in discovery_ips : runs[r].lanSearchSent[ip] > 0
    /\ ~runs[r].timedOut
    /\ runs[r].sockErrors = 0
    /\ ~runs[r].discoveryInterval /\ ~runs[r].discoveryTimeout

\* C8: a second or later stopDiscovery on a handle changes nothing of the run:
\* no state, no further socket close, no further event.
C8_StopIdempotent ==
  [][\A r \in Runs :
       (runs[r].stopCalls >= 1 /\ runs'[r].stopCalls > runs[r].stopCalls)
         => runs'[r] = [runs[r] EXCEPT !.stopCalls = @ + 1]]_vars

C8_Witness ==
  \E r \in Runs :
    /\ runs[r].stopCalls >= 2
    /\ runs[r].closeEmitted = 1
    /\ runs[r].sockState = "closed"

C10_NoSendAfterEnd ==
  [][\A r \in Runs :
       (Ended(runs[r]) \/ runs[r].errorEmitted > 0)
         => runs'[r].lanSearchSent = runs[r].lanSearchSent]_vars

\* The run ended while interval callbacks were still to come.
C10_Witness ==
  \E r \in Runs :
    /\ Ended(runs[r])
    /\ runs[r].ticks >= 1
    /\ TickFits(runs[r])
    /\ \A ip \in discovery_ips : runs[r].lanSearchSent[ip] = runs[r].ticks + 1

\* C11: while a run is running, every resend tick sends one LanSearch packet
\* to every target address, and the first round is sent in the 'listening'
\* handler itself, before any interval callback has run.
C11_ResendToEveryTarget ==
  [][\A r \in Runs :
       /\ (runs[r].sockState = "binding" /\ runs'[r].sockState = "listening")
            => /\ runs'[r].ticks = 0
               /\ \A ip \in discovery_ips : runs'[r].lanSearchSent[ip] = 1
       /\ (runs[r].discoveryRunning /\ runs'[r].ticks > runs[r].ticks)
            => \A ip \in discovery_ips :
                 runs'[r].lanSearchSent[ip] = runs[r].lanSearchSent[ip] + 1]_vars

C11_Witness ==
  \E r \in Runs :
    /\ runs[r].discoveryRunning
    /\ runs[r].ticks = 2
    /\ \A ip \in discovery_ips : runs[r].lanSearchSent[ip] = 3

\* What a run is to its holder: the flag, the timers, the socket and the
\* events raised so far.
RunView(d) ==
  <<d.discoveryRunning, d.discoveryInterval, d.discoveryTimeout, d.sock, d.sockState,
    d.discoverEmitted, d.closeEmitted, d.errorEmitted, d.lanSearchSent>>

\* C12: runs started by separate discoverDevices calls are independent: a step
\* in which one run is stopped, times out, has a socket error or closes
\* changes neither the flag, the timers, the socket nor the events of another.
C12_RunsIndependent ==
  [][\A r \in Runs, q \in Runs :
       (r # q /\ runs'[r] # runs[r] /\ runs[r].handle = "returned")
         => RunView(runs'[q]) = RunView(runs[q])]_vars

\* One run has ended and closed while the other, started before that, is
\* still running with both timers pending and has sent again since.
C12_Witness ==
  \E r \in Runs, q \in Runs :
    /\ r # q
    /\ Ended(runs[r]) /\ runs[r].closeEmitted = 1
    /\ runs[r].lanSearchSent[CHOOSE ip \in discovery_ips : TRUE] >= 1
    /\ runs[q].discoveryRunning /\ runs[q].sockState = "listening"
    /\ runs[q].discoveryInterval /\ runs[q].discoveryTimeout
    /\ runs[q].ticks >= 2

\* The runs that are running: started, handed to the caller, flag still set.
RunningRuns == { r \in Runs : runs[r].handle = "returned" /\ runs[r].discoveryRunning }

\* C13: while the HTTP layer tracks a run, a /discover trigger starts no run
\* and is answered 409; so at most one run the HTTP layer started is running.
C13_SingleTrackedRun ==
  /\ [](Cardinality(RunningRuns) <= 1)
  /\ [][(activeDiscoveryEmitter # NoRun /\ server = "up")
          => /\ nRuns' = nRuns
             /\ lastStatus' # lastStatus => lastStatus' = 409]_vars

\* The trigger was refused while the second run, started by an earlier trigger
\* after the first run had closed, was tracked and running.
C13_Witness ==
  /\ lastStatus = 409
  /\ nRuns = 2
  /\ runs[1].closeEmitted = 1
  /\ activeDiscoveryEmitter = 2
  /\ RunningRuns = {2}

\* A 'discover' event for device id is raised in this step.
Discovered(id) ==
  \E r \in Runs : runs'[r].discoverEmitted[id] > runs[r].discoverEmitted[id]

LiveSessions == { s \in SafeIds : sessions[s].exists }

\* C14: at most one session per device id: as long as none disconnects, every
\* session made is the one stored under its id, and a 'discover' event for an
\* id that has a session, from any address and in any run, makes no session
\* and leaves the stored session and the device's subscriber lists unchanged.
C14_OneSessionPerDevice ==
  /\ [](nSessions = Cardinality(LiveSessions))
  /\ [][\A id \in DevIds :
          (Discovered(id) /\ sessions[sanitize(id)].exists)
            => /\ sessions' = sessions /\ nSessions' = nSessions
               /\ responses' = responses /\ audioResponses' = audioResponses]_vars

\* The device answered a later run from another address while its session,
\* made in the first run, had a video and an audio subscriber.
C14_Witness ==
  \E pkt \in OneDevicePackets :
    LET s == sanitize(pkt.payload)
    IN /\ runs[2].received[pkt] >= 1
       /\ sessions[s].exists /\ sessions[s].sid = 1
       /\ sessions[s].dst_ip # pkt.address
       /\ runs[1].discoverEmitted[pkt.payload] >= 1
       /\ responses[s].list # <<>> /\ audioResponses[s].list # <<>>

\* C15: a session that raises 'disconnect' is removed from the registry in
\* that step, and the next 'discover' event for its device id stores a
\* brand-new session (another Session object, not yet connected) under it.
C15_DisconnectRemovesSession ==
  [][\A s \in SafeIds :
       /\ disconnects'[s] > disconnects[s] => sessions'[s] = NoSession
       /\ \A id \in DevIds :
            (sanitize(id) = s /\ Discovered(id) /\ disconnects[s] > 0 /\ ~sessions[s].exists)
              => /\ sessions'[s].exists /\ ~sessions'[s].connected
                 /\ sessions'[s].sid = nSessions + 1
                 /\ nSessions' = nSessions + 1]_vars

\* The device's first session connected and disconnected; the device was
\* discovered again and its second session is stored and connected.
C15_Witness ==
  \E s \in SafeIds :
    /\ disconnects[s] = 1
    /\ sessions[s].exists /\ sessions[s].sid = 2 /\ sessions[s].connected

\* The response objects in the subscriber lists of any device.
Registered ==
  UNION { Members(responses[s].list) \cup Members(audioResponses[s].list) : s \in SafeIds }

\* C16: once the 'close' handler of a video or audio subscriber has run, the
\* subscriber is in no subscriber list, and no later frame or audio chunk is
\* written to it.
C16_ClosedSubscriberGone ==
  /\ [](\A k \in Subs : subs[k].sink = "closed" => k \notin Registered)
  /\ [][\A k \in Subs : subs[k].sink = "closed" => writes'[k] = writes[k]]_vars

\* A video and an audio subscriber of one device have both closed, the video
\* one after a frame was written to it; an audio chunk emitted since was
\* written to neither.
C16_Witness ==
  \E v \in Subs, a \in Subs :
    /\ subs[v].kind = "video" /\ subs[a].kind = "audio"
    /\ subs[v].dev = subs[a].dev
    /\ subs[v].sink = "closed" /\ subs[a].sink = "closed"
    /\ writes[v] = <<1>> /\ writes[a] = <<>>
    /\ nEvents = 2
    /\ lastEvent.kind = "audio" /\ lastEvent.dev = subs[a].dev
    /\ sessions[subs[a].dev].audio

\* A 'frame' event of the session stored under s is emitted in this step.
FrameOf(s) ==
  /\ nEvents' = nEvents + 1
  /\ lastEvent'.kind = "video" /\ lastEvent'.dev = s

\* C17 as stated: a video subscriber whose transport is open stays registered
\* when its device's session disconnects and the device is discovered again,
\* and the frames of the new session are written to it.
C17_OpenSubscriberKeepsReceiving ==
  /\ [](\A k \in Subs : (subs[k].kind = "video" /\ subs[k].sink = "open")
                           => k \in Members(responses[subs[k].dev].list))
  /\ [][\A k \in Subs :
          (subs[k].kind = "video" /\ subs[k].sink = "open" /\ FrameOf(subs[k].dev))
            => writes'[k] = Append(writes[k], nEvents')]_vars

\* An 'audio' event of the session stored under s is emitted in this step.
AudioOf(s) ==
  /\ nEvents' = nEvents + 1
  /\ lastEvent'.kind = "audio" /\ lastEvent'.dev = s

\* The writes after an event written once to every member of list, to nobody else.
WrittenOnceTo(list) ==
  \A k \in Subs :
    writes'[k] = IF k \in Members(list) THEN Append(writes[k], nEvents') ELSE writes[k]

\* C18 as stated: each frame event of a device's session is written exactly
\* once to every video subscriber registered for that device at that moment
\* and to no other subscriber; each audio event likewise to the device's
\* audio subscribers.
C18_EveryEventFannedOut ==
  [][\A s \in SafeIds :
       /\ FrameOf(s) => WrittenOnceTo(responses[s].list)
       /\ AudioOf(s) => WrittenOnceTo(audioResponses[s].list)]_vars

\* C18: each frame event of a device's session is written exactly once to
\* every video subscriber registered for that device at that moment and to no
\* other subscriber; each audio event of a session made while the device's
\* audio setting was on likewise to the device's audio subscribers; an audio
\* event of a session made while the setting was off is written to nobody.
C18_FanOutPerDeviceAndKind ==
  [][\A s \in SafeIds :
       /\ FrameOf(s) => WrittenOnceTo(responses[s].list)
       /\ (AudioOf(s) /\ sessions[s].audio) => WrittenOnceTo(audioResponses[s].list)
       /\ (AudioOf(s) /\ ~sessions[s].audio) => writes' = writes]_vars

\* Two video subscribers of one device have each been written its frame once,
\* and a frame of the other device, emitted since, was written to neither.
C18_Witness ==
  /\ nSubs = 2
  /\ subs[1].kind = "video" /\ subs[2].kind = "video"
  /\ subs[1].dev = subs[2].dev
  /\ writes[1] = <<1>> /\ writes[2] = <<1>>
  /\ nEvents = 2
  /\ lastEvent.kind = "video" /\ lastEvent.dev # subs[1].dev

\* C19: a video subscriber registered after N frames have been published is
\* written none of them, at registration or later; from then on it is written
\* each frame its device's session publishes while it is in the device's
\* list, once, and nothing else.
C19_NoBacklogOnRegistration ==
  /\ [](\A k \in Subs : \A i \in DOMAIN writes[k] : writes[k][i] > subs[k].since)
  /\ [][\A k \in Subs :
          /\ (subs[k].sink = "none" /\ subs'[k].sink # "none")
                => (subs'[k].since = nEvents /\ writes'[k] = <<>>)
          /\ (subs[k].kind = "video" /\ k \in Members(responses[subs[k].dev].list)
                 /\ FrameOf(subs[k].dev))
                => writes'[k] = Append(writes[k], nEvents')
          /\ (subs[k].kind = "video" /\ writes'[k] # writes[k])
                => (FrameOf(subs[k].dev) /\ writes'[k] = Append(writes[k], nEvents'))]_vars

\* The second video subscriber of a device registered after the device's first
\* frame, which the first subscriber was written; it was written the second
\* frame only.
C19_Witness ==
  /\ subs[1].kind = "video" /\ subs[2].kind = "video"
  /\ subs[1].dev = subs[2].dev
  /\ subs[1].since = 0 /\ subs[2].since = 1
  /\ writes[1] = <<1, 2>>
  /\ writes[2] = <<2>>

\* C20: a video subscriber whose sink cannot accept the write is removed from
\* its device's list by the step that handles the frame, so it is no longer
\* in the list when the next frame is published.
C20_FailedWriteDropsSubscriber ==
  [][\A k \in Subs :
       (/\ subs[k].kind = "video" /\ subs[k].sink = "stalled"
        /\ k \in Members(responses[subs[k].dev].list)
        /\ FrameOf(subs[k].dev))
         => k \notin Members(responses'[subs[k].dev].list)]_vars

\* C21: when the sink of one video subscriber cannot accept the write, the
\* frame is still written once to every other subscriber in the device's
\* list, and the step changes nothing of any session.
C21_WriteFailureIsolated ==
  [][\A s \in SafeIds :
       (FrameOf(s) /\ \E j \in Members(responses[s].list) : subs[j].sink = "stalled")
         => /\ sessions' = sessions
            /\ \A k \in Members(responses[s].list) :
                 subs[k].sink = "open" => writes'[k] = Append(writes[k], nEvents')]_vars

\* The first of two video subscribers of a device can accept no write and is
\* still in the list; the device's frame was written to the second as well,
\* and the session is still connected.
C21_Witness ==
  /\ subs[1].kind = "video" /\ subs[2].kind = "video"
  /\ subs[1].dev = subs[2].dev
  /\ responses[subs[1].dev].list = <<1, 2>>
  /\ subs[1].sink = "stalled" /\ subs[2].sink = "open"
  /\ nEvents = 1 /\ lastEvent.kind = "video" /\ lastEvent.dev = subs[1].dev
  /\ writes[1] = <<1>> /\ writes[2] = <<1>>
  /\ sessions[subs[1].dev].connected

\* C22: when the close handler of subscriber j runs during the fan-out of a
\* frame, every other subscriber that was in the device's list when the
\* fan-out started is written the frame exactly once, and the list afterwards
\* holds exactly the others, in their order.
C22_RemovalDuringFanOut ==
  [][\A s \in SafeIds : \A j \in Subs :
       (/\ FrameOf(s)
        /\ j \in Members(responses[s].list)
        /\ j \notin Members(responses'[s].list))
         => /\ \A k \in Members(responses[s].list) \ {j} :
                 writes'[k] = Append(writes[k], nEvents')
            /\ responses'[s].list = Without(responses[s].list, j)]_vars

\* The first of two video subscribers was removed during the fan-out of the
\* device's second frame; the second subscriber, alone in the list now, was
\* written both frames once.
C22_Witness ==
  /\ subs[1].kind = "video" /\ subs[2].kind = "video"
  /\ subs[1].dev = subs[2].dev
  /\ subs[1].sink = "closed" /\ subs[2].sink = "open"
  /\ responses[subs[1].dev].list = <<2>>
  /\ nEvents = 2
  /\ writes[1] = <<1, 2>> /\ writes[2] = <<1, 2>>

\* C23: every subscriber is written the frames of its device in the order the
\* session raised them: the writes of a frame (header, then payload, one
\* entry here) never come before those of a frame raised earlier, and a step
\* only ever adds the frame being raised at the end.
C23_FramesInOrder ==
  /\ [](\A k \in Subs : \A i, j \in DOMAIN writes[k] :
           i < j => writes[k][i] < writes[k][j])
  /\ [][\A k \in Subs :
          writes'[k] # writes[k] => writes'[k] = Append(writes[k], nEvents')]_vars

\* A video subscriber has been written two frames of its device, the one
\* raised first before the one raised second.
C23_Witness ==
  \E k \in Subs :
    /\ subs[k].kind = "video"
    /\ writes[k] = <<1, 2>>
    /\ lastEvent.kind = "video" /\ lastEvent.dev = subs[k].dev

\* C24: the orientation code put into a frame is [1,8,3,6][rotate] when
\* mirror is off and [2,7,4,5][rotate] when it is on; it is in 1..8, and the
\* eight pairs of rotate and mirror select eight different codes.
C24_OrientationFromTables ==
  [][\A s \in SafeIds :
       FrameOf(s) =>
         /\ assembled'[1].exif = IF cameras[s].mirror
                                  THEN <<2, 7, 4, 5>>[cameras[s].rotate + 1]
                                  ELSE <<1, 8, 3, 6>>[cameras[s].rotate + 1]
         /\ assembled'[1].exif \in 1..8
         /\ \A rot \in 0..3, mir \in BOOLEAN :
              orientation([rotate |-> rot, mirror |-> mir]) = assembled'[1].exif
                => (rot = cameras[s].rotate /\ mir = cameras[s].mirror)]_vars

\* A frame of a device set to rotate 1 and mirrored has been given code 7,
\* the entry at index 1 of the mirrored table.
C24_Witness ==
  /\ lastEvent.kind = "video"
  /\ cameras[lastEvent.dev].rotate = 1 /\ cameras[lastEvent.dev].mirror
  /\ assembled[1].exif = 7

\* C25: after a frame has been annotated and fanned out, the session still
\* holds the frame as it stored it, chunk for chunk, and the payload built
\* from it has the same chunks in the same order, except that the first one
\* carries the orientation segment.
C25_OnlyHeaderChunkRewritten ==
  [][\A s \in SafeIds :
       FrameOf(s) =>
         /\ curImage'[s] \in Images
         /\ Len(assembled') = Len(curImage'[s])
         /\ \A i \in 2..Len(assembled') : assembled'[i] = curImage'[s][i]
         /\ assembled'[1].bytes = curImage'[s][1].bytes
         /\ assembled'[1].exif \in 1..8]_vars

\* A frame of three chunks has been fanned out to a subscriber: the session
\* holds it unchanged, and only the first chunk of the payload differs.
C25_Witness ==
  \E k \in Subs :
    /\ subs[k].kind = "video" /\ writes[k] # <<>>
    /\ lastEvent.kind = "video" /\ lastEvent.dev = subs[k].dev
    /\ Len(curImage[subs[k].dev]) = 3
    /\ curImage[subs[k].dev] \in Images
    /\ assembled # curImage[subs[k].dev]
    /\ Tail(assembled) = Tail(curImage[subs[k].dev])

\* C26: the payload of a frame carries the code the device's rotate and
\* mirror settings select when the frame is published, whatever the frame
\* before carried: after a rotate or mirror request the next frame has the new
\* code, and the one payload is what every subscriber of the device is written.
C26_SettingsReadPerFrame ==
  [][\A s \in SafeIds :
       FrameOf(s) =>
         /\ assembled'[1].exif = orientation(cameras[s])
         /\ (assembled # <<>> /\ assembled[1].exif # orientation(cameras[s]))
              => assembled'[1].exif # assembled[1].exif
         /\ \A k \in Members(responses[s].list) :
              writes'[k] = Append(writes[k], nEvents')]_vars

\* A subscriber has been written two frames of its device, a rotate or mirror
\* request has been answered, and the second payload carries code 8, the one
\* of the settings now in force (rotate 1, not mirrored).
C26_Witness ==
  \E k \in Subs :
    /\ subs[k].kind = "video" /\ writes[k] = <<1, 2>>
    /\ lastStatus = 204
    /\ cameras[subs[k].dev].rotate = 1 /\ ~cameras[subs[k].dev].mirror
    /\ assembled[1].exif = 8

\* C27: the rotate setting of every device that has a settings entry is one
\* of 0, 1, 2, 3 in every reachable state.
C27_RotateInRange ==
  \A s \in SafeIds : cameras[s].present => cameras[s].rotate \in {0, 1, 2, 3}

\* A discovered device with a session has had rotate and mirror requests
\* answered and is at rotate 0, mirrored.
C27_Witness ==
  \E s \in SafeIds :
    /\ sessions[s].exists /\ cameras[s].present
    /\ lastStatus = 204
    /\ cameras[s].rotate = 0 /\ cameras[s].mirror

\* A payload reaches the transport of the Session made last for s.
ArrivesAt(s) == link'[s].arrived = link[s].arrived + 1

\* C28: a payload that reaches the transport of a session after the session
\* was closed raises no 'frame', 'audio' or 'disconnect' event, so nothing is
\* written to any subscriber.
C28_NoEventsAfterClose ==
  [][\A s \in SafeIds :
       (link[s].closed /\ ArrivesAt(s))
         => /\ nEvents' = nEvents /\ lastEvent' = lastEvent
            /\ disconnects' = disconnects
            /\ writes' = writes
            /\ sessions' = sessions /\ curImage' = curImage]_vars

\* A session that had published one frame to a subscriber has been torn down
\* with one 'disconnect'; three payloads have reached its transport, and
\* there has been no second event.
C28_Witness ==
  \E s \in SafeIds, k \in Subs :
    /\ link[s].closed /\ link[s].requested
    /\ link[s].arrived = 3
    /\ subs[k].dev = s /\ writes[k] = <<1>>
    /\ nEvents = 1 /\ disconnects[s] = 1
    /\ link[s].buffer = <<>>

\* C29: a 'frame' event is raised only on a frame boundary that completes the
\* buffered fragments, which become s.curImage as a whole; s.curImage never
\* holds an incomplete frame; a malformed or truncated sequence empties the
\* buffer and leaves the session as it is, connected and in the registry.
C29_OnlyCompleteFramesPublished ==
  /\ [](\A s \in SafeIds : curImage[s] \in Images \cup {<<>>})
  /\ [][\A s \in SafeIds :
          /\ FrameOf(s) => /\ ArrivesAt(s)
                            /\ link[s].buffer \in Images
                            /\ curImage'[s] = link[s].buffer
                            /\ link'[s].buffer = <<>>
          /\ curImage'[s] # curImage[s] => (FrameOf(s) \/ ~sessions[s].exists)
          /\ (ArrivesAt(s) /\ ~FrameOf(s) /\ link[s].buffer # <<>> /\ link'[s].buffer = <<>>)
               => /\ sessions' = sessions /\ disconnects' = disconnects
                  /\ link'[s].closed = link[s].closed
                  /\ curImage' = curImage /\ nEvents' = nEvents]_vars

\* A connected session has published a one-chunk frame and holds the first
\* fragment of the next in its buffer; the listener's view is still the
\* published frame.
C29_Witness ==
  \E s \in SafeIds :
    /\ sessions[s].connected /\ ~link[s].closed
    /\ nEvents = 1 /\ lastEvent.kind = "video" /\ lastEvent.dev = s
    /\ curImage[s] = <<Chunk("soi")>>
    /\ link[s].buffer = <<Chunk("soi")>>
    /\ link[s].arrived = 3

\* C30: a session still waiting for the handshake reply when its window of
\* 5000 ms is over is never connected and never asks for the video stream;
\* it is torn down, and when it is, it raises 'disconnect' and leaves the
\* registry.
C30_HandshakeTimeout ==
  /\ HANDSHAKE_MS = 5000
  /\ [][\A s \in SafeIds :
          (sessions[s].exists /\ ~sessions[s].connected /\ link[s].waited >= HANDSHAKE_MS)
            => /\ ~sessions'[s].connected
               /\ ~link'[s].requested
               /\ (link'[s].closed \/ sessions'[s] # sessions[s])
                    => /\ link'[s].closed /\ ~sessions'[s].exists
                       /\ disconnects'[s] = disconnects[s] + 1]_vars
  /\ \A s \in SafeIds :
       (sessions[s].exists /\ ~sessions[s].connected /\ link[s].waited >= HANDSHAKE_MS)
         ~> (~sessions[s].exists /\ link[s].closed)

\* A session whose window ran out has been torn down with one 'disconnect';
\* it never asked for the stream and is no longer in the registry.
C30_Witness ==
  \E s \in SafeIds :
    /\ link[s].made /\ link[s].closed
    /\ link[s].waited = HANDSHAKE_MS
    /\ ~link[s].requested
    /\ ~sessions[s].exists /\ disconnects[s] = 1

\* The number a client reads from the digits of a Content-Length field.
RECURSIVE valueOf(_)
valueOf(digits) ==
  IF digits = <<>> THEN 0 ELSE 10 * valueOf(SubSeq(digits, 1, Len(digits) - 1)) + digits[Len(digits)]

\* C31: for every subscriber, the two writes of one video frame are
\* consecutive: after the opening boundary the stream is a sequence of pairs,
\* a header and then the payload of the same frame, the header's
\* Content-Length being the length of the payload written next; no write of
\* another frame falls between them, and a step that writes a frame to a
\* subscriber writes the whole pair.
C31_FrameWritesConsecutive ==
  /\ [](\A k \in Subs : subs[k].kind = "video" =>
          /\ Len(wire[k]) % 2 = 1
          /\ wire[k][1] = openingBoundary
          /\ \A i \in 1..(Len(wire[k]) \div 2) :
               LET header == wire[k][2 * i]
                   payload == wire[k][2 * i + 1]
               IN /\ header.part = "header" /\ payload.part = "payload"
                  /\ header.frame = payload.frame
                  /\ valueOf(header.contentLength) = payload.length
                  /\ i > 1 => wire[k][2 * i - 1].frame < header.frame)
  /\ [][\A k \in Subs :
          (subs[k].kind = "video" /\ wire'[k] # wire[k])
            => /\ Len(wire'[k]) = Len(wire[k]) + 2
               /\ SubSeq(wire'[k], 1, Len(wire[k])) = wire[k]
               /\ wire'[k][Len(wire'[k])].length = length(assembled')]_vars

C31_Witness ==
  \E k, m \in Subs :
    /\ k # m /\ subs[k].kind = "video" /\ subs[m].kind = "video"
    /\ subs[k].dev = subs[m].dev
    /\ Len(wire[k]) = 5 /\ Len(wire[m]) = 3
    /\ wire[k][4].frame = wire[m][2].frame
    /\ wire[k][2].contentLength = <<1, 3, 5>>
    /\ wire[k][4].contentLength = <<5, 0>>

NotifiedIn(r, s) ==
  SumOver([id \in DevIds |-> IF sanitize(id) = s THEN notifications[r][id] ELSE 0], DevIds)

\* C33: within one run the HTTP layer sends at most one discovery
\* notification per sanitised device id, however many 'discover' events the
\* run raises for it, and none outside Home Assistant; whether an event is
\* notified depends on the notifications of its own run only, so a later run
\* notifies the id again.
C33_OneNotificationPerRunAndId ==
  /\ [](\A r \in Runs, s \in SafeIds :
          /\ NotifiedIn(r, s) <= 1
          /\ ~inHass => NotifiedIn(r, s) = 0)
  /\ [][\A r \in Runs, id \in DevIds :
          runs'[r].discoverEmitted[id] > runs[r].discoverEmitted[id]
            => /\ notifications'[r][id] =
                    notifications[r][id]
                    + (IF inHass /\ NotifiedIn(r, sanitize(id)) = 0 THEN 1 ELSE 0)
               /\ \A q \in Runs, other \in DevIds :
                    (q # r \/ other # id) => notifications'[q][other] = notifications[q][other]]_vars

\* Inside Home Assistant one run raised 'discover' for two raw ids that are
\* sanitised to one key, and notified once.
C33_Witness ==
  \E r \in Runs :
    /\ inHass
    /\ runs[r].discoverEmitted[TwinId] = 1
    /\ runs[r].discoverEmitted[<<"B", " ", "2">>] = 1
    /\ NotifiedIn(r, sanitize(TwinId)) = 1

\* The entry after has every field but f as the entry before has it.
SameBut(before, after, f) ==
  /\ after.present = before.present
  /\ after.alias = before.alias
  /\ after.unset \ {f} = before.unset \ {f}
  /\ f # "rotate" => after.rotate = before.rotate
  /\ f # "mirror" => after.mirror = before.mirror
  /\ f # "audio" => after.audio = before.audio

\* C34: a rotate request for a device with a settings entry changes only
\* that entry's rotate field, to (rotate + 1) mod 4, and a mirror request only
\* its mirror field, to the negation; no other device's entry changes; and
\* from every reachable entry four rotate requests in a row, or two mirror
\* requests in a row, lead back to the rotate and mirror values it has, with
\* every other field as it is.
C34_RotateAndMirrorCycle ==
  /\ [][\A s \in SafeIds :
          /\ (RotateRoute(s) /\ cameras[s].present)
               => /\ cameras'[s].rotate = (cameras[s].rotate + 1) % 4
                  /\ "rotate" \notin cameras'[s].unset
                  /\ SameBut(cameras[s], cameras'[s], "rotate")
                  /\ \A o \in SafeIds \ {s} : cameras'[o] = cameras[o]
          /\ (MirrorRoute(s) /\ cameras[s].present)
               => /\ cameras'[s].mirror = ~cameras[s].mirror
                  /\ "mirror" \notin cameras'[s].unset
                  /\ SameBut(cameras[s], cameras'[s], "mirror")
                  /\ \A o \in SafeIds \ {s} : cameras'[o] = cameras[o]]_vars
  /\ [](\A s \in SafeIds :
          cameras[s].present =>
            LET four == rotated(rotated(rotated(rotated(cameras[s]))))
                two == mirrored(mirrored(cameras[s]))
            IN /\ four.rotate = cameras[s].rotate
               /\ SameBut(cameras[s], four, "rotate")
               /\ rotated(cameras[s]).rotate # cameras[s].rotate
               /\ two.mirror = cameras[s].mirror
               /\ SameBut(cameras[s], two, "mirror")
               /\ mirrored(cameras[s]).mirror # cameras[s].mirror)

\* Both devices have entries; one, discovered with its configured rotate 2 and
\* made complete, has been rotated to 3 and mirrored, while the other still has
\* only its alias.
C34_Witness ==
  \E s, o \in SafeIds :
    /\ s # o /\ lastStatus = 204
    /\ sessions[s].exists
    /\ cameras[s].rotate = 3 /\ cameras[s].mirror /\ cameras[s].audio /\ cameras[s].alias = ""
    /\ cameras[o].present /\ cameras[o].unset = {"rotate", "mirror", "audio"}

\* C35: a rotate or mirror request for a device id without a settings entry
\* is answered 404, creates no entry and changes no entry, session or
\* subscriber list; an entry comes into being only with the session made for
\* a discovered device.
C35_UnknownDeviceRejected ==
  [][\A s \in SafeIds :
       /\ ((RotateRoute(s) \/ MirrorRoute(s)) /\ ~cameras[s].present)
            => /\ lastStatus' = 404
               /\ cameras' = cameras
               /\ sessions' = sessions
               /\ responses' = responses /\ audioResponses' = audioResponses
       /\ (~cameras[s].present /\ cameras'[s].present)
            => /\ ~sessions[s].exists /\ sessions'[s].exists
               /\ cameras'[s] = defaults]_vars

\* The last request, for a device without an entry, was answered 404 while
\* the other device's entry, rotated and mirrored before, is as it was left.
C35_Witness ==
  \E s, o \in SafeIds :
    /\ lastStatus = 404
    /\ ~cameras[s].present /\ ~sessions[s].exists
    /\ cameras[o].present /\ cameras[o].alias = "porch"
    /\ cameras[o].rotate = 1 /\ cameras[o].mirror /\ cameras[o].unset = {"audio"}

\* C36: a video or audio stream request for a device without a session, or
\* with a session that is not connected, is answered with an error status
\* (404 without a session, 503 while unconnected) and leaves every subscriber
\* list, and every response object registered before, as it was.
C36_StreamRequestRejected ==
  [][\A s \in SafeIds :
       ((CameraRoute(s) \/ AudioRoute(s))
          /\ ~(sessions[s].exists /\ sessions[s].connected))
         => /\ lastStatus' = IF sessions[s].exists THEN 503 ELSE 404
            /\ responses' = responses /\ audioResponses' = audioResponses
            /\ nSubs' = nSubs /\ subs' = subs
            /\ wire' = wire /\ writes' = writes]_vars

\* The last request was answered 503 for a device whose session is not
\* connected yet, while the other device's video stream is open.
C36_Witness ==
  \E s, o \in SafeIds :
    /\ lastStatus = 503
    /\ sessions[s].exists /\ ~sessions[s].connected
    /\ responses[s].list = <<>> /\ audioResponses[s].list = <<>>
    /\ sessions[o].connected
    /\ responses[o].list # <<>>

\* C37: a /discover trigger is never rejected forever.  A tracked run that
\* has ended (timeout, stop, socket error) is eventually no longer tracked,
\* every tracked run does end, a run that fails to initialise is never
\* tracked, and a trigger that finds no tracked run starts a new run instead
\* of answering 409.
C37_TriggerNotRejectedForever ==
  /\ \A r \in Runs :
       (activeDiscoveryEmitter = r /\ Ended(runs[r])) ~> (activeDiscoveryEmitter = NoRun)
  /\ \A r \in Runs : (activeDiscoveryEmitter = r) ~> (activeDiscoveryEmitter = NoRun)
  /\ [](\A r \in Runs : runs[r].handle = "thrown" => activeDiscoveryEmitter # r)
  /\ [][(DiscoverConflict \/ \E ok \in BOOLEAN : DiscoverTrigger(ok))
          /\ activeDiscoveryEmitter = NoRun
        => nRuns' = nRuns + 1 /\ lastStatus' \in {200, 500}]_vars

\* The initial run ended by its timeout and its socket has closed; the
\* trigger that followed was accepted and its run is the tracked one.
C37_Witness ==
  /\ runs[1].timedOut /\ runs[1].closeEmitted = 1
  /\ runs[2].handle = "returned"
  /\ activeDiscoveryEmitter = 2
  /\ lastStatus = 200

\* C38: the 'close' or 'error' event of a run that is not the tracked one
\* leaves the tracked reference as it is; the reference is cleared only in a
\* step in which the tracked run itself raises 'close' or 'error', or by the
\* SIGTERM handler.
C38_OnlyTrackedRunClears ==
  [][/\ \A r \in Runs :
          (/\ r # activeDiscoveryEmitter
           /\ \/ runs'[r].closeEmitted > runs[r].closeEmitted
              \/ runs'[r].errorObserved > runs[r].errorObserved)
            => activeDiscoveryEmitter' = activeDiscoveryEmitter
     /\ (activeDiscoveryEmitter # NoRun /\ activeDiscoveryEmitter' = NoRun)
          => \/ server = "up" /\ server' = "terminating"
             \/ LET r == activeDiscoveryEmitter
                IN \/ runs'[r].closeEmitted > runs[r].closeEmitted
                   \/ runs'[r].errorObserved > runs[r].errorObserved]_vars

\* The initial run had a socket error and its socket has closed since, and
\* the run started by the trigger after the error is still the tracked one.
C38_Witness ==
  /\ runs[1].sockErrors = 1 /\ runs[1].errorObserved = 1 /\ runs[1].closeEmitted = 1
  /\ runs[2].handle = "returned" /\ runs[2].sockState = "binding"
  /\ activeDiscoveryEmitter = 2
  /\ server = "up"

\* C39: the step that creates a session for a device keeps every settings
\* value its entry holds (rotate, mirror, audio, alias), gives the fields the
\* entry lacks the defaults rotate 0, mirror false, audio true, and leaves
\* the other devices' entries alone; a disconnect changes no entry, so an
\* entry made or changed before is found unchanged by a re-discovery.
C39_ConfiguredSettingsKept ==
  [][\A s \in SafeIds :
       /\ (~sessions[s].exists /\ sessions'[s].exists)
            => LET before == cameras[s]
                   after == cameras'[s]
               IN /\ after.present /\ after.unset = {}
                  /\ after.rotate = IF before.present /\ "rotate" \notin before.unset
                                    THEN before.rotate ELSE 0
                  /\ after.mirror = IF before.present /\ "mirror" \notin before.unset
                                    THEN before.mirror ELSE FALSE
                  /\ after.audio = IF before.present /\ "audio" \notin before.unset
                                   THEN before.audio ELSE TRUE
                  /\ after.alias = before.alias
                  /\ sessions'[s].audio = after.audio
                  /\ (before.present /\ before.unset = {} => after = before)
                  /\ \A o \in SafeIds \ {s} : cameras'[o] = cameras[o]
       /\ (sessions[s].exists /\ ~sessions'[s].exists) => cameras' = cameras]_vars

\* A device configured with rotate 3, mirror on, audio off and an alias was
\* discovered, rotated, disconnected and discovered again: its second session
\* finds rotate 0 and the other three values as configured.
C39_Witness ==
  \E s \in SafeIds :
    /\ sessions[s].exists /\ sessions[s].sid = 2 /\ disconnects[s] = 1
    /\ ~sessions[s].audio
    /\ cameras[s] = [present |-> TRUE, rotate |-> 0, mirror |-> TRUE, audio |-> FALSE,
                     alias |-> "porch", unset |-> {}]

\* The raw device ids for which some run has raised 'discover'.
DiscoveredIds == { id \in DevIds : \E r \in Runs : runs[r].discoverEmitted[id] > 0 }

\* C40: two devices with different raw ids never share a session or a
\* subscriber list, also when their ids differ only in characters that are
\* sanitised: as long as no session has disconnected, every raw id that was
\* discovered has had a session made for it, and no registry key stands for
\* two discovered ids.
C40_DistinctIdsDistinctSessions ==
  /\ (\A s \in SafeIds : disconnects[s] = 0) => nSessions = Cardinality(DiscoveredIds)
  /\ \A a, b \in DiscoveredIds : a # b => sanitize(a) # sanitize(b)
====
